---- MODULE Spec2Model ----
\* Model of the Toronto 2.0 code index: the provision store with its FTS5
\* index (codes-db.js), the segmenter and the ingestion script
\* (ingest-codes.js), and the search entry points used by server.js.
EXTENDS Integers, Sequences, FiniteSets, TLC

VARIABLES
    provisions,      \* table provisions: id -> row (the writer connection's view)
    provisions_fts,  \* FTS5 index provisions_fts: rowid -> indexed column values
    sqlite_sequence, \* AUTOINCREMENT counter of table provisions
    ingestion_log,   \* table ingestion_log: sequence of rows
    tx,              \* the open write transaction of bulkInsert, if any
    ret,             \* the last call and what it returned or threw
    segIn,           \* extractAndChunk: the text pdf-parse extracted and the chapter
    segOut,          \* extractAndChunk: the provisions returned
    pc,              \* ingest-codes.js: where the process is
    argv,            \* ingest-codes.js: process.argv from index 2 on
    toIngest,        \* the units of the source being ingested
    cache,           \* the files of CACHE_DIR: html and pdf, by cache key
    work,            \* the locals of the loop body: pdfBuffer, provisions
    run,             \* how many times the script has been started
    hist,            \* what the store held when the current run started
    faults           \* how many database statements have failed so far

storeVars == <<provisions, provisions_fts, sqlite_sequence, ingestion_log, tx, ret>>
segVars == <<segIn, segOut>>
ingVars == <<pc, argv, toIngest, cache, work, run, hist, faults>>
vars == <<storeVars, segVars, ingVars>>

(***************************************************************************)
(* Values.  A nullable TEXT column is <<>> for NULL and <<s>> for string   *)
(* s.  A string is a sequence of words (maximal runs of non-blank          *)
(* characters), a word a sequence of characters.                           *)
(***************************************************************************)
NULL == <<>>
Str(s) == <<s>>

\* JavaScript `x || null`: null, undefined and '' all become NULL
OrNull(f) == IF f = NULL \/ f = Str(<<>>) THEN NULL ELSE f

Max2(a, b) == IF a >= b THEN a ELSE b
Min2(a, b) == IF a <= b THEN a ELSE b

RECURSIVE SetMax(_)
SetMax(S) == IF S = {} THEN 0
             ELSE LET x == CHOOSE y \in S : TRUE IN Max2(x, SetMax(S \ {x}))

\* bounds of the store model
MaxId == 3
MaxBatch == 2

w_noise   == <<"n", "o", "i", "s", "e">>
w_nois    == <<"n", "o", "i", "s">>
w_parking == <<"p", "a", "r", "k", "i", "n", "g">>
w_park    == <<"p", "a", "r", "k">>
w_11pm_   == <<"1", "1", "p", "m", ".">>
w_Fence   == <<"F", "e", "n", "c", "e">>
w_fenc    == <<"f", "e", "n", "c">>
w_at      == <<"a", "t">>

\* the records handed to insertProvision / bulkInsert
Item(src, content, summary) ==
    [source |-> src, chapter |-> Str(<<w_park>>), chapter_title |-> Str(<<w_Fence>>),
     section |-> NULL, section_title |-> NULL, content |-> content,
     summary |-> summary, pdf_url |-> NULL, keywords |-> NULL]

Items ==
    { Item(Str(<<w_park>>), Str(<<w_noise, w_at, w_11pm_>>), NULL),
      Item(Str(<<w_at>>), Str(<<w_parking>>), Str(<<>>)),
      Item(Str(<<w_park>>), NULL, NULL) }          \* content missing: NOT NULL fails

Batches == UNION { [1..n -> Items] : n \in 1..MaxBatch }

Summaries == { NULL, Str(<<w_noise>>) }

(***************************************************************************)
(* The schema: table provisions, the index and its three triggers.         *)
(* A database state is [provisions, fts, seq].                             *)
(***************************************************************************)
FtsColumns(row) ==
    [chapter_title |-> row.chapter_title, section_title |-> row.section_title,
     content |-> row.content, summary |-> row.summary, keywords |-> row.keywords]

\* INSERT INTO provisions_fts(rowid, ...) VALUES (...)
FtsInsert(fts, rowid, cols) ==
    [r \in (DOMAIN fts) \cup {rowid} |-> IF r = rowid THEN cols ELSE fts[r]]

\* INSERT INTO provisions_fts(provisions_fts, rowid, ...) VALUES ('delete', ...)
FtsDelete(fts, rowid, cols) ==
    IF rowid \in DOMAIN fts /\ fts[rowid] = cols
    THEN [r \in (DOMAIN fts) \ {rowid} |-> fts[r]]
    ELSE fts

\* trigger provisions_ai
TriggerAfterInsertNoIndex(fts, new) == fts
TriggerAfterInsert(fts, new) == FtsInsert(fts, new.id, FtsColumns(new))

\* trigger provisions_ad
TriggerAfterDelete(fts, old) == FtsDelete(fts, old.id, FtsColumns(old))

\* trigger provisions_au
TriggerAfterUpdate(fts, old, new) ==
    FtsInsert(FtsDelete(fts, old.id, FtsColumns(old)), new.id, FtsColumns(new))

\* NOT NULL constraints of table provisions
ViolatesNotNull(item) == item.source = NULL \/ item.content = NULL

\* id INTEGER PRIMARY KEY AUTOINCREMENT, with the rule of a table without
\* AUTOINCREMENT as a variant
NextRowidAfterMax(st) == SetMax(DOMAIN st.provisions) + 1
NextRowid(st) == Max2(st.seq, SetMax(DOMAIN st.provisions)) + 1

\* one INSERT INTO provisions statement that succeeds, with its trigger
InsertRow(st, item) ==
    LET id  == NextRowid(st)
        row == [id |-> id] @@ item
    IN  [provisions |-> [r \in (DOMAIN st.provisions) \cup {id} |->
                            IF r = id THEN row ELSE st.provisions[r]],
         fts        |-> TriggerAfterInsert(st.fts, row),
         seq        |-> id]

\* UPDATE provisions SET summary = s WHERE id = id
UpdateRow(st, id, s) ==
    LET old == st.provisions[id]
        new == [old EXCEPT !.summary = s]
    IN  [provisions |-> [st.provisions EXCEPT ![id] = new],
         fts        |-> TriggerAfterUpdate(st.fts, old, new),
         seq        |-> st.seq]

\* DELETE FROM provisions WHERE id = id
DeleteRow(st, id) ==
    [provisions |-> [r \in (DOMAIN st.provisions) \ {id} |-> st.provisions[r]],
     fts        |-> TriggerAfterDelete(st.fts, st.provisions[id]),
     seq        |-> st.seq]

\* the parameters insertProvision binds
InsertParams(item) ==
    [item EXCEPT !.summary = OrNull(item.summary),
                 !.pdf_url = OrNull(item.pdf_url),
                 !.keywords = OrNull(item.keywords)]

\* the parameters bulkInsert binds for one item
BulkParams(item) ==
    [item EXCEPT !.section = OrNull(item.section),
                 !.section_title = OrNull(item.section_title),
                 !.summary = OrNull(item.summary),
                 !.pdf_url = OrNull(item.pdf_url),
                 !.keywords = OrNull(item.keywords)]

\* db.transaction: what the database holds after the wrapped function threw
TxRollbackKeepsWrites(snapshot, working) == working
TxRollback(snapshot, working) == snapshot

Store == [provisions |-> provisions, fts |-> provisions_fts, seq |-> sqlite_sequence]
NoTx == [open |-> FALSE]

SetStore(st) ==
    /\ provisions' = st.provisions
    /\ provisions_fts' = st.fts
    /\ sqlite_sequence' = st.seq

EmptyFn == [r \in {} |-> 0]

InitStore ==
    /\ provisions = EmptyFn
    /\ provisions_fts = EmptyFn
    /\ sqlite_sequence = 0
    /\ ingestion_log = <<>>
    /\ tx = NoTx

(***************************************************************************)
(* Text as extractAndChunk sees it: a sequence of pieces.  A literal piece *)
(* spells its characters; a filler piece stands for n repetitions of one   *)
(* character that starts no pattern (the letter x, or a blank).            *)
(***************************************************************************)
SectionSign == "§"
EnDash == "EN-DASH"
Digits == {"0", "1", "2", "3", "4", "5", "6", "7", "8", "9"}
WhiteSpace == {" ", "\n"}
SectionChars == Digits \cup {"-", EnDash, "."}
RomanChars == {"I", "V", "X", "L", "C", "i", "v", "x", "l", "c"}
UpperCase == {"A", "B", "C", "D", "E", "F", "G", "H", "I", "J", "K", "L", "M",
              "N", "O", "P", "Q", "R", "S", "T", "U", "V", "W", "X", "Y", "Z"}

Lit(chars) == [k |-> "lit", c |-> chars, n |-> Len(chars)]
Fill(ch, n) == [k |-> "fill", c |-> <<ch>>, n |-> n]

ToLower(ch) ==
    CASE ch = "A" -> "a" [] ch = "C" -> "c" [] ch = "E" -> "e" [] ch = "F" -> "f"
      [] ch = "I" -> "i" [] ch = "L" -> "l" [] ch = "N" -> "n" [] ch = "P" -> "p"
      [] ch = "R" -> "r" [] ch = "S" -> "s" [] ch = "T" -> "t" [] OTHER -> ch

LowerCase(c) == [j \in 1..Len(c) |-> ToLower(c[j])]

\* the number of characters of pieces lo..hi of t (summed by halves)
RECURSIVE SumLen(_, _, _)
SumLen(t, lo, hi) ==
    IF lo > hi THEN 0
    ELSE IF lo = hi THEN t[lo].n
    ELSE LET mid == (lo + hi) \div 2
         IN  SumLen(t, lo, mid) + SumLen(t, mid + 1, hi)

\* text.length
TextLen(t) == SumLen(t, 1, Len(t))

\* the concatenation of the sequences ss[lo], ..., ss[hi] (by halves)
RECURSIVE Cat(_, _, _)
Cat(ss, lo, hi) ==
    IF lo > hi THEN <<>>
    ELSE IF lo = hi THEN ss[lo]
    ELSE LET mid == (lo + hi) \div 2
         IN  Cat(ss, lo, mid) \o Cat(ss, mid + 1, hi)

\* the characters of a text, a filler piece shortened to one character
Flat(t) == Cat([i \in 1..Len(t) |-> t[i].c], 1, Len(t))

\* the first index >= i of c whose character is outside cls (Len(c) + 1 if none)
Skip(c, i, cls) ==
    LET S == {j \in i..Len(c) : c[j] \notin cls}
    IN  IF S = {} THEN Max2(i, Len(c) + 1) ELSE CHOOSE j \in S : \A k \in S : j <= k

\* /(?=§\s*\d+[\-–]\d+)/ at index a of c
MatchSection(c, a) ==
    /\ a <= Len(c) /\ c[a] = SectionSign
    /\ LET b == Skip(c, a + 1, WhiteSpace)
           d == Skip(c, b, Digits)
       IN  /\ d > b /\ d <= Len(c) /\ c[d] \in {"-", EnDash}
           /\ Skip(c, d + 1, Digits) > d + 1

\* /(?=ARTICLE\s+[IVXLC]+)/i at index a of c
MatchArticle(c, a) ==
    /\ a + 6 <= Len(c)
    /\ LowerCase(SubSeq(c, a, a + 6)) = <<"a", "r", "t", "i", "c", "l", "e">>
    /\ LET b == Skip(c, a + 7, WhiteSpace)
       IN  b > a + 7 /\ b <= Len(c) /\ c[b] \in RomanChars

\* /(?=\d+\.\d+\.\d+)/ at index a of c
MatchDotted(c, a) ==
    LET b == Skip(c, a, Digits)
    IN  /\ b > a /\ b <= Len(c) /\ c[b] = "."
        /\ LET d == Skip(c, b + 1, Digits)
           IN  /\ d > b + 1 /\ d <= Len(c) /\ c[d] = "."
               /\ Skip(c, d + 1, Digits) > d + 1

\* /(?=\n\s*\(\d+\)\s+[A-Z])/ at index a of c
MatchParen(c, a) ==
    /\ a <= Len(c) /\ c[a] = "\n"
    /\ LET b == Skip(c, a + 1, WhiteSpace)
       IN  /\ b <= Len(c) /\ c[b] = "("
           /\ LET d == Skip(c, b + 1, Digits)
              IN  /\ d > b + 1 /\ d <= Len(c) /\ c[d] = ")"
                  /\ LET e == Skip(c, d + 1, WhiteSpace)
                     IN  e > d + 1 /\ e <= Len(c) /\ c[e] \in UpperCase

sectionPatterns == <<"section", "article", "dotted", "paren">>

MatchAt(pat, c, a) ==
    CASE pat = "section" -> MatchSection(c, a)
      [] pat = "article" -> MatchArticle(c, a)
      [] pat = "dotted"  -> MatchDotted(c, a)
      [] pat = "paren"   -> MatchParen(c, a)

\* the offsets (0-based) of a piece at which the pattern's lookahead matches
Offsets(pat, p) ==
    IF p.k = "lit" THEN {o \in 0..(p.n - 1) : MatchAt(pat, p.c, o + 1)} ELSE {}

RECURSIVE SortedSeq(_)
SortedSeq(S) ==
    IF S = {} THEN <<>>
    ELSE LET m == CHOOSE x \in S : \A y \in S : x <= y
         IN  <<m>> \o SortedSeq(S \ {m})

SubPiece(p, lo, hi) ==
    IF p.k = "fill" THEN Fill(p.c[1], hi - lo) ELSE Lit(SubSeq(p.c, lo + 1, hi))

\* the places <<piece, offset>> where the pattern's lookahead matches, in text
\* order, the start of the text left out (split yields no empty first part)
MatchPoints(t, pat) ==
    LET at(i) == LET so == SortedSeq(Offsets(pat, t[i]))
                 IN  [j \in 1..Len(so) |-> <<i, so[j]>>]
    IN  SelectSeq(Cat([i \in 1..Len(t) |-> at(i)], 1, Len(t)),
                  LAMBDA pt : pt # <<1, 0>>)

\* the pieces of t from place from up to place to
Between(t, from, to) ==
    IF from[1] = to[1] THEN <<SubPiece(t[from[1]], from[2], to[2])>>
    ELSE <<SubPiece(t[from[1]], from[2], t[from[1]].n)>>
            \o SubSeq(t, from[1] + 1, to[1] - 1)
            \o (IF to[2] > 0 THEN <<SubPiece(t[to[1]], 0, to[2])>> ELSE <<>>)

\* text.split(pattern): the text cut before every match
SplitText(t, pat) ==
    LET pts == <<<<1, 0>>>> \o MatchPoints(t, pat) \o <<<<Len(t) + 1, 0>>>>
    IN  [j \in 1..(Len(pts) - 1) |-> Between(t, pts[j], pts[j + 1])]

IsBlank(p) == \A j \in 1..Len(p.c) : p.c[j] \in WhiteSpace

\* the blanks a piece that is not blank starts and ends with
PieceLead(p) == IF p.k = "fill" THEN 0 ELSE Skip(p.c, 1, WhiteSpace) - 1
PieceTrail(p) ==
    IF p.k = "fill" THEN 0
    ELSE LET S == {j \in 1..Len(p.c) : p.c[j] \notin WhiteSpace}
         IN  Len(p.c) - (CHOOSE j \in S : \A k \in S : j >= k)

\* the range [a, b) of offsets that s.trim() keeps
TrimRange(t) ==
    LET S == {i \in 1..Len(t) : ~IsBlank(t[i])}
    IN  IF S = {} THEN <<0, 0>>
        ELSE LET i0 == CHOOSE i \in S : \A k \in S : i <= k
                 i1 == CHOOSE i \in S : \A k \in S : i >= k
             IN  <<SumLen(t, 1, i0 - 1) + PieceLead(t[i0]),
                   SumLen(t, 1, i1) - PieceTrail(t[i1])>>

\* s.trim().length
TrimLen(t) == TrimRange(t)[2] - TrimRange(t)[1]

\* the part of pieces lo..hi of t inside offsets [a, b), pos the offset of lo
RECURSIVE SliceRange(_, _, _, _, _, _)
SliceRange(t, lo, hi, pos, a, b) ==
    IF lo > hi \/ pos >= b THEN <<>>
    ELSE IF lo = hi
    THEN LET from == Max2(a, pos) - pos
             to   == Min2(b, pos + t[lo].n) - pos
         IN  IF to > from THEN <<SubPiece(t[lo], from, to)>> ELSE <<>>
    ELSE LET mid  == (lo + hi) \div 2
             left == SumLen(t, lo, mid)
         IN  (IF pos + left <= a THEN <<>> ELSE SliceRange(t, lo, mid, pos, a, b))
                \o SliceRange(t, mid + 1, hi, pos + left, a, b)

\* s.slice(a, b) for 0 <= a
Slice(t, a, b) == SliceRange(t, 1, Len(t), 0, a, b)

\* s.trim()
Trim(t) == Slice(t, TrimRange(t)[1], TrimRange(t)[2])

(***************************************************************************)
(* extractAndChunk, chunkBySize, extractKeywords                           *)
(***************************************************************************)
MinTextLen == 50
MinSplitLen == 30
MaxSplits == 200
ChunkThreshold == 2000
ChunkSize == 1500
ChunkOverlap == 200
MaxTitleLen == 120
MaxContentLen == 3000
MinContentLen == 50

\* chunkBySize(text, chunkSize, overlap), from offset start on
RECURSIVE ChunkFrom(_, _, _, _)
ChunkFrom(t, start, chunkSize, overlap) ==
    LET len == TextLen(t)
    IN  IF ~(start < len) THEN <<>>
        ELSE LET end  == Min2(start + chunkSize, len)
                 next == end - overlap
             IN  <<Slice(t, start, end)>> \o
                    (IF next >= len - overlap THEN <<>>
                     ELSE ChunkFrom(t, next, chunkSize, overlap))

chunkBySizeNoOverlap(t, chunkSize, overlap) == ChunkFrom(t, 0, chunkSize, 0)

chunkBySize(t, chunkSize, overlap) == ChunkFrom(t, 0, chunkSize, overlap)

\* splits = text.split(pattern).filter(s => s.trim().length > 30)
ValidSplits(t, pat) ==
    SelectSeq(SplitText(t, pat), LAMBDA s : TrimLen(s) > MinSplitLen)

\* the loop over sectionPatterns, from pattern k on
RECURSIVE BestSectionsNoCap(_, _, _)
BestSectionsNoCap(t, sections, k) ==
    IF k > Len(sectionPatterns) THEN sections
    ELSE LET splits == ValidSplits(t, sectionPatterns[k])
         IN  BestSectionsNoCap(t,
                 IF Len(splits) > Len(sections) THEN splits ELSE sections, k + 1)

RECURSIVE BestSections(_, _, _)
BestSections(t, sections, k) ==
    IF k > Len(sectionPatterns) THEN sections
    ELSE LET splits == ValidSplits(t, sectionPatterns[k])
         IN  BestSections(t,
                 IF Len(splits) > Len(sections) /\ Len(splits) < MaxSplits
                 THEN splits ELSE sections,
                 k + 1)

\* the sections extractAndChunk maps to provisions
UsesChunks(t) == Len(BestSections(t, <<t>>, 1)) <= 1 /\ TextLen(t) > ChunkThreshold

Sections(t) ==
    IF UsesChunks(t) THEN chunkBySize(t, ChunkSize, ChunkOverlap)
    ELSE BestSections(t, <<t>>, 1)

\* content.match(/^§?\s*([\d\-–.]+)/): the captured group, or NULL
SectionMatch(content) ==
    LET f == Flat(content)
        i == IF f # <<>> /\ f[1] = SectionSign THEN 2 ELSE 1
        b == Skip(f, i, WhiteSpace)
        d == Skip(f, b, SectionChars)
    IN  IF d > b THEN Str(SubSeq(f, b, d - 1)) ELSE NULL

\* content.trim().split('\n')[0]?.trim()
UpToNewline(t) ==
    LET S == {i \in 1..Len(t) : t[i].k = "lit" /\ \E j \in 1..t[i].n : t[i].c[j] = "\n"}
    IN  IF S = {} THEN t
        ELSE LET i == CHOOSE x \in S : \A y \in S : x <= y
                 N == {x \in 1..t[i].n : t[i].c[x] = "\n"}
                 j == CHOOSE x \in N : \A y \in N : x <= y
             IN  SubSeq(t, 1, i - 1) \o
                    (IF j = 1 THEN <<>> ELSE <<Lit(SubSeq(t[i].c, 1, j - 1))>>)

FirstLine(content) == Trim(UpToNewline(Trim(content)))

SectionTitle(content) ==
    LET firstLine == FirstLine(content)
    IN  IF TextLen(firstLine) > 0 /\ TextLen(firstLine) < MaxTitleLen
        THEN Str(firstLine) ELSE NULL

w_garage == <<"g", "a", "r", "a", "g", "e">>
w_sound  == <<"s", "o", "u", "n", "d">>
w_fence  == <<"f", "e", "n", "c", "e">>

Contains(c, w) == \E i \in 0..(Len(c) - Len(w)) : SubSeq(c, i + 1, i + Len(w)) = w

\* the tags of extractKeywords whose words occur in the texts of this model,
\* in the order of the table
keywordPatterns ==
    << [tag |-> "parking", alts |-> {w_parking, w_garage}],
       [tag |-> "noise",   alts |-> {w_noise, w_sound}],
       [tag |-> "fence",   alts |-> {w_fence}] >>

extractKeywordsOfStoredContent(text) ==
    LET t    == LowerCase(Flat(Slice(Trim(text), 0, MaxContentLen)))
        hits == SelectSeq(keywordPatterns, LAMBDA kp : \E w \in kp.alts : Contains(t, w))
    IN  [j \in 1..Len(hits) |-> hits[j].tag]

extractKeywords(text) ==
    LET t    == LowerCase(Flat(text))
        hits == SelectSeq(keywordPatterns, LAMBDA kp : \E w \in kp.alts : Contains(t, w))
    IN  [j \in 1..Len(hits) |-> hits[j].tag]

\* the section reference of the i-th section (i counted from 1)
SectionRefZeroBased(chapter, content, i) ==
    LET section == SectionMatch(content)
    IN  IF section # NULL THEN <<chapter, "-", section[1]>>
        ELSE <<chapter, " (Part ", i - 1, ")">>

SectionRefAlwaysPart(chapter, content, i) == <<chapter, " (Part ", i, ")">>

SectionRef(chapter, content, i) ==
    LET section == SectionMatch(content)
    IN  IF section # NULL THEN <<chapter, "-", section[1]>>
        ELSE <<chapter, " (Part ", i, ")">>

MakeProvision(meta, content, i) ==
    [source        |-> Str(meta.source),
     chapter       |-> Str(meta.chapter),
     chapter_title |-> Str(meta.chapterTitle),
     section       |-> Str(SectionRef(meta.chapter, content, i)),
     section_title |-> SectionTitle(content),
     content       |-> Str(Slice(Trim(content), 0, MaxContentLen)),
     summary       |-> NULL,
     pdf_url       |-> Str(meta.pdfUrl),
     keywords      |-> Str(extractKeywords(content))]

ContentLen(p) == TextLen(p.content[1])

KeepProvisionOver30(p) == ContentLen(p) > MinSplitLen
KeepProvision(p) == ContentLen(p) > MinContentLen

\* extractAndChunk(pdfBuffer, meta), parsed = what pdfParse gave
extractAndChunk(parsed, meta) ==
    IF ~parsed.ok THEN <<>>
    ELSE IF parsed.text = <<>> \/ TextLen(parsed.text) < MinTextLen THEN <<>>
    ELSE LET sections   == Sections(parsed.text)
             mapped   == [i \in 1..Len(sections) |->
                             MakeProvision(meta, sections[i], i)]
         IN  SelectSeq(mapped, KeepProvision)

(***************************************************************************)
(* Documents: a sequence of units, each an optional heading followed by a  *)
(* blank and a body of len letters; units are joined by a newline.         *)
(***************************************************************************)
MaxUnits == 2

DigitOf(i) ==
    CASE i % 10 = 0 -> "0" [] i % 10 = 1 -> "1" [] i % 10 = 2 -> "2"
      [] i % 10 = 3 -> "3" [] i % 10 = 4 -> "4" [] i % 10 = 5 -> "5"
      [] i % 10 = 6 -> "6" [] i % 10 = 7 -> "7" [] i % 10 = 8 -> "8"
      [] OTHER -> "9"

Heading(m, i) ==
    CASE m \in {"sec", "kwFirst", "kwLast"} ->
                       <<Lit(<<SectionSign, " ", "5", "9", "1", "-", "2", ".", DigitOf(i)>>)>>
      [] m = "art"  -> <<Lit(<<"A", "R", "T", "I", "C", "L", "E", " ", "I", "I", "I">>)>>
      [] m = "dot"  -> <<Lit(<<"1", "5", ".", "1", "0", ".", "4", DigitOf(i)>>)>>
      [] m = "par"  -> <<Lit(<<"\n", "(", "1", ")", " ", "A">>)>>
      [] m = "none" -> <<>>

\* the words of a unit of kind kwFirst (before its body) or kwLast (after it)
KeywordWords == <<"F", "e", "n", "c", "e", " ", "n", "o", "i", "s", "e">>

UnitText(u, i) ==
    Heading(u.m, i) \o <<Fill(" ", 1)>>
        \o (IF u.m = "kwFirst" THEN <<Lit(KeywordWords), Fill(" ", 1)>> ELSE <<>>)
        \o <<Fill("x", u.len)>>
        \o (IF u.m = "kwLast" THEN <<Fill(" ", 1), Lit(KeywordWords)>> ELSE <<>>)

DocText(units) ==
    Cat([i \in 1..Len(units) |->
            (IF i > 1 /\ units[i].m # "par" THEN <<Lit(<<"\n">>)>> ELSE <<>>)
                \o UnitText(units[i], i)],
        1, Len(units))

BodyLens == {12, 38, 44, 3100}
UnitKinds == {"sec", "art", "dot", "none"}
Units == [m : UnitKinds, len : BodyLens]

U(m, len) == [m |-> m, len |-> len]

\* documents beyond the generated ones: the two-line noise chapter, headings of
\* two kinds, parenthesised enumerations, a long text without headings,
\* texts with 199, 200 and 201 headings, sections with the words 'Fence
\* noise' at their start, at their end, and after their 3000th character, and
\* texts without headings of 200, 1500, 1501, 2800, 2801 and 4100 characters
SpecialDocs ==
    { <<U("sec", 38), U("sec", 44), U("art", 44), U("art", 44), U("art", 38)>>,
      <<U("none", 44), U("par", 60), U("par", 38), U("par", 60)>>,
      <<U("none", 2100)>>,
      <<U("art", 1900), U("none", 1900)>>,
      <<U("kwFirst", 3100), U("sec", 44)>>,
      <<U("kwLast", 44), U("sec", 60)>>,
      <<U("kwLast", 3100), U("sec", 44)>>,
      <<U("kwLast", 2985), U("sec", 44)>>,
      <<U("kwLast", 2100)>>,
      <<U("none", 199)>>, <<U("none", 1499)>>, <<U("none", 1500)>>,
      <<U("none", 2799)>>, <<U("none", 2800)>>, <<U("none", 4099)>>,
      [i \in 1..199 |-> U("sec", 44)],
      [i \in 1..200 |-> U("sec", 44)],
      [i \in 1..202 |-> IF i \in {1, 100} THEN U("art", 44) ELSE U("sec", 44)] }

Docs == UNION { [1..n -> Units] : n \in 1..MaxUnits } \cup SpecialDocs

chapter591 ==
    [source |-> "municipal_code", chapter |-> "Chapter 591",
     chapterTitle |-> "Noise", pdfUrl |-> "591.pdf"]

(***************************************************************************)
(* Store operations                                                        *)
(***************************************************************************)
\* insertProvision(item): one autocommitted statement
InsertProvision(item) ==
    /\ ~tx.open
    /\ sqlite_sequence < MaxId
    /\ IF ViolatesNotNull(InsertParams(item))
       THEN /\ UNCHANGED <<provisions, provisions_fts, sqlite_sequence>>
            /\ ret' = [op |-> "insertProvision", threw |-> TRUE]
       ELSE /\ SetStore(InsertRow(Store, InsertParams(item)))
            /\ ret' = [op |-> "insertProvision", threw |-> FALSE,
                       id |-> NextRowid(Store)]
    /\ UNCHANGED <<ingestion_log, tx, segVars, ingVars>>

\* bulkInsert(items): tx(provisions) begins the transaction
BulkBegin(items) ==
    /\ ~tx.open
    /\ sqlite_sequence + Len(items) <= MaxId
    /\ tx' = [open |-> TRUE, snapshot |-> Store, items |-> items, next |-> 1]
    /\ ret' = [op |-> "bulkInsert", threw |-> FALSE, done |-> FALSE]
    /\ UNCHANGED <<provisions, provisions_fts, sqlite_sequence, ingestion_log, segVars, ingVars>>

\* insert.run for the next item; a failing run rolls the transaction back
BulkRun ==
    /\ tx.open
    /\ tx.next <= Len(tx.items)
    /\ LET p == BulkParams(tx.items[tx.next])
       IN  IF ViolatesNotNull(p)
           THEN /\ SetStore(TxRollback(tx.snapshot, Store))
                /\ tx' = NoTx
                /\ ret' = [op |-> "bulkInsert", threw |-> TRUE, done |-> TRUE,
                           before |-> tx.snapshot, items |-> tx.items]
           ELSE /\ SetStore(InsertRow(Store, p))
                /\ tx' = [tx EXCEPT !.next = @ + 1]
                /\ UNCHANGED ret
    /\ UNCHANGED <<ingestion_log, segVars, ingVars>>

\* the loop is over: COMMIT, then return provisions.length
BulkCommit ==
    /\ tx.open
    /\ tx.next > Len(tx.items)
    /\ tx' = NoTx
    /\ ret' = [op |-> "bulkInsert", threw |-> FALSE, done |-> TRUE,
               before |-> tx.snapshot, items |-> tx.items, count |-> Len(tx.items)]
    /\ UNCHANGED <<provisions, provisions_fts, sqlite_sequence, ingestion_log, segVars, ingVars>>

\* UPDATE of a provision's summary (the backfill the schema's trigger serves)
UpdateSummary(id, s) ==
    /\ ~tx.open
    /\ id \in DOMAIN provisions
    /\ SetStore(UpdateRow(Store, id, s))
    /\ ret' = [op |-> "update", threw |-> FALSE]
    /\ UNCHANGED <<ingestion_log, tx, segVars, ingVars>>

\* DELETE of a provision (index repair)
DeleteProvision(id) ==
    /\ ~tx.open
    /\ id \in DOMAIN provisions
    /\ SetStore(DeleteRow(Store, id))
    /\ ret' = [op |-> "delete", threw |-> FALSE]
    /\ UNCHANGED <<ingestion_log, tx, segVars, ingVars>>

NoCall == [op |-> "none", threw |-> FALSE]
NoText == [units |-> <<>>, ok |-> FALSE]
NoWork == [at |-> "none"]
NoHist == [provisions |-> EmptyFn, log |-> <<>>, prev |-> "none", net |-> "none"]

\* the script has not been started and CACHE_DIR is empty
NotStarted ==
    /\ pc = [at |-> "start"]
    /\ argv = <<>>
    /\ toIngest = <<>>
    /\ cache = [html |-> {}, pdf |-> EmptyFn]
    /\ work = NoWork
    /\ run = 0
    /\ hist = NoHist
    /\ faults = 0

Init ==
    /\ InitStore
    /\ ret = NoCall
    /\ segIn = NoText
    /\ segOut = <<>>
    /\ NotStarted

(***************************************************************************)
(* The segmenter on its own: a document is drawn, extractAndChunk runs     *)
(***************************************************************************)
InitSeg ==
    /\ InitStore
    /\ ret = NoCall
    /\ \E units \in Docs, ok \in BOOLEAN : segIn = [units |-> units, ok |-> ok]
    /\ segOut = <<>>
    /\ NotStarted

Parsed(in) == [ok |-> in.ok, text |-> DocText(in.units)]

\* extractAndChunk(pdfBuffer, {source, chapter, chapterTitle, pdfUrl})
ExtractAndChunk ==
    /\ ret.op = "none"
    /\ segOut' = extractAndChunk(Parsed(segIn), chapter591)
    /\ ret' = [op |-> "extractAndChunk", threw |-> FALSE]
    /\ UNCHANGED <<provisions, provisions_fts, sqlite_sequence, ingestion_log, tx, segIn, ingVars>>

NextSeg == ExtractAndChunk

SpecSeg == InitSeg /\ [][NextSeg]_vars

(***************************************************************************)
(* The ingestion script.  A URL is kept as its first 45 characters and the *)
(* rest: base64 turns 3 bytes into 4 characters, so the first 60           *)
(* characters of the encoding are the encoding of the first 45 bytes.      *)
(***************************************************************************)
MaxRuns == 2
MaxFaults == 1

Url(head, tail) == [head |-> head, tail |-> tail]

\* Buffer.from(url).toString('base64').slice(0, 60)
CacheKey(url) == url.head

indexUrl == Url("https://www.toronto.ca/legdocs/bylaws/lawmcod", "e.htm")

priorityChapters ==
    { 349, 354, 363, 395, 415, 441, 447, 459, 469, 489, 492,
      510, 517, 523, 545, 547, 548, 553, 555, 591, 608, 611,
      612, 615, 629, 632, 636, 658, 673, 681, 693, 694, 719,
      738, 743, 767, 813, 841, 844, 849, 851, 880, 886, 903,
      910, 915, 918, 919, 925, 937, 950 }

zoningPdfUrls ==
    << [url     |-> Url("https://www.toronto.ca/legdocs/bylaws/2013/la",
                        "w0569-schedule-a-vol1-ch1-800.pdf"),
        chapter |-> "Zoning By-law 569-2013 Vol. 1",
        title   |-> "Chapters 1-800"],
       [url     |-> Url("https://www.toronto.ca/legdocs/bylaws/2013/la",
                        "w0569-schedule-a-vol2-ch900-part1.pdf"),
        chapter |-> "Zoning By-law 569-2013 Vol. 2",
        title   |-> "Exceptions Part 1"],
       [url     |-> Url("https://www.toronto.ca/wp-content/uploads/201",
                        "8/07/97ec-City-Planning-Zoning-Zoning-By-law-Part-1.pdf"),
        chapter |-> "Zoning By-law 569-2013 Consolidated",
        title   |-> "Office Consolidation (Chapters 1-80)"] >>

officialPlanPdfUrls ==
    << [url     |-> Url("https://www.toronto.ca/wp-content/uploads/201",
                        "9/06/8f06-OfficialPlanAODA_Compiled-3.0.pdf"),
        chapter |-> "Official Plan",
        title   |-> "Consolidated Official Plan"] >>

\* the chapters the index page lists: links a[href*="municode"] whose text
\* holds "Chapter <n>" and whose href ends in .pdf; a relative href is put
\* under https://www.toronto.ca/legdocs/municode/
MunicodeUrl(file) == Url("https://www.toronto.ca/legdocs/municode/1184_", file)

IndexChapters ==
    << [number |-> 591, title |-> "Noise", url |-> MunicodeUrl("591.pdf")],
       [number |-> 100, title |-> "Animals", url |-> MunicodeUrl("100.pdf")] >>

\* c => config.priorityChapters.includes(c.number)
IsPriority(c) == c.number \in priorityChapters

\* `Chapter ${ch.number}`
ChapterRef(number) == <<"Chapter ", number>>

\* what the server holds at each URL: whether pdf-parse reads it, and its text
PdfAt(url) ==
    CASE url = MunicodeUrl("591.pdf") ->
            [ok |-> TRUE, units |-> <<U("sec", 44), U("sec", 44)>>]
      [] url = MunicodeUrl("100.pdf") ->
            [ok |-> TRUE, units |-> <<U("none", 12)>>]
      [] url = zoningPdfUrls[1].url ->
            [ok |-> TRUE, units |-> <<U("art", 44), U("art", 60)>>]
      [] url = zoningPdfUrls[2].url ->
            [ok |-> TRUE, units |-> <<U("none", 12)>>]
      [] url = zoningPdfUrls[3].url ->
            [ok |-> FALSE, units |-> <<>>]
      [] OTHER ->
            [ok |-> TRUE, units |-> <<U("dot", 44)>>]

\* process.argv[2..]: an argument is a flag and the value after it
Arg(flag, value) == [flag |-> flag, value |-> value]
AllChapters == Arg("--all-chapters", "")

ArgLists ==
    { <<>>,
      <<Arg("--source=", "municipal_code")>>,
      <<Arg("--source=", "zoning_bylaw")>>,
      <<Arg("--source=", "official_plan")>>,
      <<AllChapters>>,
      <<Arg("--source=", "municipal_code"), AllChapters>> }

\* arg.replace('--source=', '')
StripSource(a) == IF a.flag = "--source=" THEN a.value ELSE a.flag

\* process.argv[2]?.replace('--source=', '') || 'all'
SourceArg(args) ==
    IF Len(args) = 0 THEN "all"
    ELSE IF StripSource(args[1]) = "" THEN "all"
    ELSE StripSource(args[1])

Stages == <<"municipal_code", "zoning_bylaw", "official_plan">>
StageNo(src) == CHOOSE k \in 1..3 : Stages[k] = src

\* source === 'all' || source === '<stage>'
Selected(args, stage) == SourceArg(args) = "all" \/ SourceArg(args) = stage

\* the chapter of a unit and the meta handed to extractAndChunk
UnitChapter(src, u) ==
    IF src = "municipal_code" THEN ChapterRef(u.number) ELSE <<u.chapter>>

UnitMeta(src, u) ==
    [source       |-> src,
     chapter      |-> UnitChapter(src, u),
     chapterTitle |-> IF src = "zoning_bylaw"
                      THEN <<"Zoning By-law 569-2013 ", "EM-DASH", " ", u.title>>
                      ELSE <<u.title>>,
     pdfUrl       |-> u.url]

\* isIngested(source, chapter), with a variant that never finds the record
IsIngestedNever(log, source, chapter) == FALSE
isIngested(log, source, chapter) ==
    \E j \in 1..Len(log) : log[j].source = source /\ log[j].chapter = chapter

\* the row logIngestion(source, chapter, count) inserts
LogRow(source, chapter, count) ==
    [source |-> source, chapter |-> chapter, provisions_count |-> count]

\* tx(provisions) of bulkInsert after its first n insert.run calls
RECURSIVE BulkFold(_, _, _)
BulkFold(st, items, n) ==
    IF n = 0 THEN st
    ELSE InsertRow(BulkFold(st, items, n - 1), BulkParams(items[n]))

\* getCodeStats()
CountWhere(st, field, v) ==
    Cardinality({ id \in DOMAIN st.provisions : st.provisions[id][field] = v })

\* getCodeStats, with a variant whose total counts the sources
getCodeStatsCountsSources(st) ==
    [total_provisions |->
         Cardinality({ st.provisions[id].source : id \in DOMAIN st.provisions }),
     by_source |-> { [source |-> s, count |-> CountWhere(st, "source", s)] :
                     s \in { st.provisions[id].source : id \in DOMAIN st.provisions } },
     top_chapters |-> {}]
getCodeStats(st) ==
    [total_provisions |-> Cardinality(DOMAIN st.provisions),
     by_source |-> { [source |-> s, count |-> CountWhere(st, "source", s)] :
                     s \in { st.provisions[id].source : id \in DOMAIN st.provisions } },
     top_chapters |-> { [chapter |-> c, count |-> CountWhere(st, "chapter", c)] :
                     c \in { st.provisions[id].chapter : id \in DOMAIN st.provisions } }]

(***************************************************************************)
(* The steps of the script.  pc.at names the statement about to run; the   *)
(* process can be killed between any two of them.                          *)
(***************************************************************************)
Unit == toIngest[pc.i]

\* the loop moves on to the next unit (continue, the catch block, or the end
\* of the body)
NextUnit == [at |-> "check", src |-> pc.src, i |-> pc.i + 1]

\* the end of the try block: sleep(300) in the municipal code and zoning
\* loops, nothing in the official plan loop
AfterBody ==
    IF pc.src = "official_plan" THEN NextUnit ELSE [pc EXCEPT !.at = "sleep"]

\* node ingest-codes.js <args>; a later run repeats the command of the first
Start(args) ==
    /\ pc.at \in {"start", "done", "fatal", "killed"}
    /\ run < MaxRuns
    /\ run > 0 => args = argv
    /\ run' = run + 1
    /\ argv' = args
    /\ hist' = [provisions |-> provisions, log |-> ingestion_log, prev |-> pc.at,
                net |-> "none"]
    /\ pc' = [at |-> "main", k |-> 0]
    /\ toIngest' = <<>>
    /\ work' = NoWork
    /\ ret' = NoCall
    /\ UNCHANGED <<provisions, provisions_fts, sqlite_sequence, ingestion_log, tx,
                   cache, faults, segVars>>

\* main: the next `if (source === 'all' || source === ...)`
Main ==
    /\ pc.at = "main"
    /\ pc.k < 3
    /\ LET stage == Stages[pc.k + 1]
       IN  IF ~Selected(argv, stage)
           THEN /\ pc' = [pc EXCEPT !.k = @ + 1]
                /\ UNCHANGED toIngest
           ELSE IF stage = "municipal_code"
           THEN /\ pc' = [at |-> "index"]
                /\ UNCHANGED toIngest
           ELSE /\ pc' = [at |-> "check", src |-> stage, i |-> 1]
                /\ toIngest' = IF stage = "zoning_bylaw" THEN zoningPdfUrls
                               ELSE officialPlanPdfUrls
    /\ UNCHANGED <<storeVars, segVars, argv, cache, work, run, hist, faults>>

\* ingestMunicipalCode up to its loop: fetchPage(config.indexUrl), the chapter
\* links, the priority filter.  A failed fetch is not caught before main().catch
FetchIndex ==
    /\ pc.at = "index"
    /\ \E ok \in BOOLEAN :
          IF CacheKey(indexUrl) \notin cache.html /\ ~ok
          THEN /\ pc' = [at |-> "fatal"]
               /\ UNCHANGED <<toIngest, cache>>
          ELSE /\ cache' = [cache EXCEPT !.html = @ \cup {CacheKey(indexUrl)}]
               /\ toIngest' =
                     IF \E j \in 1..Len(argv) : argv[j] = AllChapters
                     THEN IndexChapters
                     ELSE SelectSeq(IndexChapters, IsPriority)
               /\ pc' = [at |-> "check", src |-> "municipal_code", i |-> 1]
    /\ UNCHANGED <<storeVars, segVars, argv, work, run, hist, faults>>

\* the head of a loop: the end of the list, or the isIngested test
Check ==
    /\ pc.at = "check"
    /\ pc' = IF pc.i > Len(toIngest)
             THEN [at |-> "main", k |-> StageNo(pc.src)]
             ELSE IF isIngested(ingestion_log, pc.src, UnitChapter(pc.src, Unit))
             THEN NextUnit
             ELSE [pc EXCEPT !.at = "fetch"]
    /\ work' = NoWork
    /\ UNCHANGED <<storeVars, segVars, argv, toIngest, cache, run, hist, faults>>

\* fetchPdf(url): the cached file if there is one, else the download, which
\* may fail (network error or a response that is not ok).  hist.net names the
\* routine whose last request to the server no sleep has followed yet.
FetchPdf ==
    /\ pc.at = "fetch"
    /\ LET key == CacheKey(Unit.url)
       IN  IF key \in DOMAIN cache.pdf
           THEN /\ work' = [at |-> "pdf", pdf |-> cache.pdf[key]]
                /\ pc' = [pc EXCEPT !.at = "segment"]
                /\ UNCHANGED <<cache, hist>>
           ELSE /\ hist' = [hist EXCEPT !.net = pc.src]
                /\ \E res \in {"ok", "HTTP 404", "network error"} :
                   IF res = "ok"
                   THEN /\ cache' = [cache EXCEPT !.pdf =
                               [k \in (DOMAIN @) \cup {key} |->
                                   IF k = key THEN Unit.url ELSE @[k]]]
                        /\ work' = [at |-> "pdf", pdf |-> Unit.url]
                        /\ pc' = [pc EXCEPT !.at = "segment"]
                   ELSE /\ pc' = NextUnit
                        /\ work' = NoWork
                        /\ UNCHANGED cache
    /\ UNCHANGED <<storeVars, segVars, argv, toIngest, run, faults>>

\* extractAndChunk(pdfBuffer, meta)
Segment ==
    /\ pc.at = "segment"
    /\ work' = [at |-> "provisions",
                provisions |-> extractAndChunk(Parsed(PdfAt(work.pdf)),
                                               UnitMeta(pc.src, Unit))]
    /\ pc' = [pc EXCEPT !.at = "insert"]
    /\ UNCHANGED <<storeVars, segVars, argv, toIngest, cache, run, hist, faults>>

\* the else branch of `if (provisions.length > 0)`: the municipal code routine
\* prints a warning, the other two have no else branch
WarnNoProvisions ==
    IF pc.src = "municipal_code"
    THEN ret' = [op |-> "console.log", threw |-> FALSE,
                 warning |-> "no provisions extracted",
                 unit |-> <<pc.src, UnitChapter(pc.src, Unit)>>]
    ELSE UNCHANGED ret

\* `if (provisions.length > 0)` codesDb.bulkInsert(provisions): all the rows,
\* or none when a statement fails (failAt > 0) and the transaction is rolled
\* back
Insert ==
    /\ pc.at = "insert"
    /\ IF Len(work.provisions) = 0
       THEN /\ pc' = AfterBody
            /\ work' = NoWork
            /\ WarnNoProvisions
            /\ UNCHANGED <<provisions, provisions_fts, sqlite_sequence, faults>>
       ELSE \E failAt \in 0..(IF faults < MaxFaults THEN Len(work.provisions) ELSE 0) :
          IF failAt = 0
          THEN /\ SetStore(BulkFold(Store, work.provisions, Len(work.provisions)))
               /\ pc' = [pc EXCEPT !.at = "record"]
               /\ UNCHANGED <<work, faults, ret>>
          ELSE /\ SetStore(TxRollback(Store, BulkFold(Store, work.provisions, failAt - 1)))
               /\ pc' = NextUnit
               /\ work' = NoWork
               /\ faults' = faults + 1
               /\ UNCHANGED ret
    /\ UNCHANGED <<ingestion_log, tx, segVars, argv, toIngest, cache, run, hist>>

\* codesDb.logIngestion(source, chapter, provisions.length), which inserts the
\* row or fails
Record ==
    /\ pc.at = "record"
    /\ \E ok \in (IF faults < MaxFaults THEN BOOLEAN ELSE {TRUE}) :
          IF ok
          THEN /\ ingestion_log' = Append(ingestion_log,
                       LogRow(pc.src, UnitChapter(pc.src, Unit), Len(work.provisions)))
               /\ pc' = AfterBody
               /\ UNCHANGED faults
          ELSE /\ pc' = NextUnit
               /\ faults' = faults + 1
               /\ UNCHANGED ingestion_log
    /\ work' = NoWork
    /\ UNCHANGED <<provisions, provisions_fts, sqlite_sequence, tx, ret, segVars,
                   argv, toIngest, cache, run, hist>>

\* await sleep(300)
Sleep ==
    /\ pc.at = "sleep"
    /\ pc' = NextUnit
    /\ hist' = [hist EXCEPT !.net = "slept"]
    /\ UNCHANGED <<storeVars, segVars, argv, toIngest, cache, work, run, faults>>

\* the end of main: codesDb.getCodeStats() and the report
Stats ==
    /\ pc.at = "main"
    /\ pc.k = 3
    /\ ret' = [op |-> "getCodeStats", threw |-> FALSE, stats |-> getCodeStats(Store)]
    /\ pc' = [at |-> "done"]
    /\ UNCHANGED <<provisions, provisions_fts, sqlite_sequence, ingestion_log, tx,
                   segVars, argv, toIngest, cache, work, run, hist, faults>>

\* the process is killed; the database keeps what was committed
Kill ==
    /\ pc.at \notin {"start", "done", "fatal", "killed"}
    /\ pc' = [at |-> "killed"]
    /\ work' = NoWork
    /\ UNCHANGED <<storeVars, segVars, argv, toIngest, cache, run, hist, faults>>

InitIngest == Init

NextIngest ==
    \/ \E args \in ArgLists : Start(args)
    \/ Main
    \/ FetchIndex
    \/ Check
    \/ FetchPdf
    \/ Segment
    \/ Insert
    \/ Record
    \/ Sleep
    \/ Stats
    \/ Kill

SpecIngest == InitIngest /\ [][NextIngest]_vars

\* what other connections read, with a variant that reads uncommitted rows
CommittedOrNot == Store
Committed == IF tx.open THEN tx.snapshot ELSE Store

(***************************************************************************)
(* Search.  The server reads through its own connection, so a search sees  *)
(* the committed state.  A query is the sequence of its words, as the      *)
(* store's texts are.                                                      *)
(***************************************************************************)
LowerLetters == {"a", "b", "c", "d", "e", "f", "g", "h", "i", "j", "k", "l", "m",
                 "n", "o", "p", "q", "r", "s", "t", "u", "v", "w", "x", "y", "z"}
AlnumChars == Digits \cup LowerLetters \cup UpperCase

\* the class \w of a JavaScript regular expression
WordChars == AlnumChars \cup {"_"}

\* the maximal runs of characters of cls in c, in order
Runs(c, cls) ==
    LET starts == SortedSeq({ i \in 1..Len(c) :
                      c[i] \in cls /\ (i = 1 \/ c[i - 1] \notin cls) })
        EndOf(i) == CHOOSE j \in i..Len(c) :
                      /\ \A k \in i..j : c[k] \in cls
                      /\ j = Len(c) \/ c[j + 1] \notin cls
    IN  [n \in 1..Len(starts) |-> SubSeq(c, starts[n], EndOf(starts[n]))]

\* the runs of all the words of a text
TextRuns(text, cls) == Cat([i \in 1..Len(text) |-> Runs(text[i], cls)], 1, Len(text))

\* the porter stemmer on the tokens of three or more characters that occur
\* in this model; every other token of the model is its own stem
PorterStem(t) ==
    CASE t = w_noise   -> w_nois
      [] t = w_parking -> w_park
      [] t = <<"f", "e", "n", "c", "e">> -> w_fenc
      [] t = <<"o", "i", "s">> -> <<"o", "i">>
      [] t = <<"p","r","o","h","i","b","i","t","e","d">> -> <<"p","r","o","h","i","b","i","t">>
      [] t = <<"v","e","h","i","c","l","e">> -> <<"v","e","h","i","c","l">>
      [] t = <<"s","p","a","c","e","s">> -> <<"s","p","a","c","e">>
      [] t = <<"p","r","o","p","e","r","t","y">> -> <<"p","r","o","p","e","r","t","i">>
      [] t = <<"b","o","u","n","d","a","r","y">> -> <<"b","o","u","n","d","a","r","i">>
      [] OTHER -> t

\* tokenize='porter unicode61': runs of letters and digits, folded to lower
\* case, stemmed
Tokenize(text) ==
    LET runs == TextRuns(text, AlnumChars)
    IN  [j \in 1..Len(runs) |-> PorterStem(LowerCase(runs[j]))]

\* the tokens of an indexed column (none for NULL)
ColumnTokens(col) == IF col = NULL THEN <<>> ELSE Tokenize(col[1])

\* the tokens of the phrase "w" of a MATCH expression
QueryTokensUnstemmed(w) == [j \in 1..Len(Runs(w, AlnumChars)) |->
                               LowerCase(Runs(w, AlnumChars)[j])]
QueryTokens(w) == Tokenize(<<w>>)

\* w.length > 2
KeepTerm(w) == Len(w) > 2

\* query.replace(/[^\w\s]/g, ' ').trim().split(/\s+/).filter(w => w.length > 2)
CleanTerms(query) == SelectSeq(TextRuns(query, WordChars), KeepTerm)

FtsColumnNames == {"chapter_title", "section_title", "content", "summary", "keywords"}

\* provisions_fts MATCH '"w1" OR "w2" ...' on one indexed row: some phrase
\* occurs in some column
FtsMatch(cols, terms) ==
    \E j \in 1..Len(terms), name \in FtsColumnNames :
        /\ QueryTokens(terms[j]) # <<>>
        /\ Contains(ColumnTokens(cols[name]), QueryTokens(terms[j]))

\* `if (source)`: null and '' add no filter
SourceOk(row, source) == OrNull(source) = NULL \/ row.source = source

\* LIMIT ?: the result sets a limit allows (which rows is left to the order)
DefaultLimit == 5

\* the subsets of S with k elements
RECURSIVE KSubsets(_, _)
KSubsets(S, k) ==
    IF k = 0 THEN {{}}
    ELSE UNION { { T \cup {x} : x \in S \ T } : T \in KSubsets(S, k - 1) }

\* a negative LIMIT is no limit
Limited(S, limit) ==
    IF limit < 0 \/ limit >= Cardinality(S) THEN {S}
    ELSE IF 2 * limit > Cardinality(S)
    THEN { S \ T : T \in KSubsets(S, Cardinality(S) - limit) }
    ELSE KSubsets(S, limit)

\* the ids the FTS query selects: index rows that match, joined to provisions
FtsRows(st, terms, source) ==
    { id \in (DOMAIN st.fts) \cap (DOMAIN st.provisions) :
        FtsMatch(st.fts[id], terms) /\ SourceOk(st.provisions[id], source) }

\* column LIKE '%t%' (the texts of this model hold no % and no _)
Like(col, t) ==
    /\ col # NULL
    /\ \E j \in 1..Len(col[1]) : Contains(LowerCase(col[1][j]), LowerCase(t))

\* (p.content LIKE ? OR p.chapter_title LIKE ? OR p.section_title LIKE ?),
\* with a variant over every indexed column
LikeConditionAllFields(row, t) ==
    \E name \in FtsColumnNames : Like(row[name], t)
LikeCondition(row, t) ==
    Like(row.content, t) \/ Like(row.chapter_title, t) \/ Like(row.section_title, t)

\* fallbackSearch: query.split(/\s+/).filter(w => w.length > 2)
FallbackTerms(query) == SelectSeq(query, KeepTerm)

\* WHERE c1 OR ... OR cn AND p.source = ?: AND binds the last condition only
FallbackRows(st, terms, source) ==
    { id \in DOMAIN st.provisions :
        LET row == st.provisions[id]
            n   == Len(terms)
        IN  \/ \E j \in 1..(n - 1) : LikeCondition(row, terms[j])
            \/ LikeCondition(row, terms[n]) /\ SourceOk(row, source) }

\* fallbackSearch(query, limit, source): the row sets it can return
FallbackSearch(st, query, limit, source) ==
    IF FallbackTerms(query) = <<>> THEN {{}}
    ELSE Limited(FallbackRows(st, FallbackTerms(query), source), limit)

\* the catch block of searchProvisions, with a variant that throws again
CatchRethrows(st, query, limit, source) ==
    { [threw |-> TRUE, fallback |-> FALSE, rows |-> {}] }
Catch(st, query, limit, source) ==
    { [threw |-> FALSE, fallback |-> TRUE, rows |-> rows] :
        rows \in FallbackSearch(st, query, limit, source) }

\* what searchProvisions(query, {limit, source}) can do on the database st;
\* ftsThrows: the FTS statement throws
SearchOutcomes(st, query, limit, source, ftsThrows) ==
    IF CleanTerms(query) = <<>>
    THEN { [threw |-> FALSE, fallback |-> FALSE, rows |-> {}] }
    ELSE IF ~ftsThrows
    THEN { [threw |-> FALSE, fallback |-> FALSE, rows |-> rows] :
             rows \in Limited(FtsRows(st, CleanTerms(query), source), limit) }
    ELSE Catch(st, query, limit, source)

\* searchProvisions(query, {limit, source}) called directly
SearchProvisions(query, limit, source, ftsThrows) ==
    /\ \E out \in SearchOutcomes(Committed, query, limit, source, ftsThrows) :
        ret' = [op |-> "searchProvisions", threw |-> out.threw, query |-> query,
                limit |-> limit, source |-> source,
                fallback |-> out.fallback, rows |-> out.rows]
    /\ UNCHANGED <<provisions, provisions_fts, sqlite_sequence, ingestion_log, tx,
                   segVars, ingVars>>

\* the searches another process makes while this one writes
ConcurrentQueries ==
    { <<<<"n", "o", "i", "s", "e">>>>,
      <<<<"n", "o", "i", "s", "e">>, <<"p", "a", "r", "k", "i", "n", "g">>>> }

\* the store's operations of one process, and searches of another
Next ==
    \/ \E item \in Items : InsertProvision(item)
    \/ \E items \in Batches : BulkBegin(items)
    \/ BulkRun
    \/ BulkCommit
    \/ \E id \in 1..MaxId, s \in Summaries : UpdateSummary(id, s)
    \/ \E id \in 1..MaxId : DeleteProvision(id)
    \/ \E query \in ConcurrentQueries, ftsThrows \in BOOLEAN :
           SearchProvisions(query, -1, NULL, ftsThrows)

Spec == Init /\ [][Next]_vars

\* parseInt of a string made of an optional minus sign and decimal digits
DigitValue(ch) == CHOOSE v \in 0..9 : DigitOf(v) = ch

RECURSIVE ParseDigits(_, _)
ParseDigits(c, n) ==
    IF n = 0 THEN 0 ELSE 10 * ParseDigits(c, n - 1) + DigitValue(c[n])

ParseInt(c) ==
    IF c[1] = "-" THEN 0 - ParseDigits(Tail(c), Len(c) - 1)
    ELSE ParseDigits(c, Len(c))

EndpointDefaultLimit == 10
EndpointMaxLimit == 20

\* Math.min(parseInt(limit), 20), limit = 10 when the parameter is absent
EndpointLimit(param) ==
    Min2(IF param = NULL THEN EndpointDefaultLimit ELSE ParseInt(param[1]),
         EndpointMaxLimit)

\* GET /api/codes/search?q=..&source=..&limit=..
CodesSearch(req, ftsThrows) ==
    /\ IF req.q = <<>>
       THEN ret' = [op |-> "GET /api/codes/search", status |-> 400, threw |-> FALSE,
                    query |-> req.q, limit |-> 0, source |-> NULL,
                    fallback |-> FALSE, rows |-> {}]
       ELSE \E out \in SearchOutcomes(Committed, req.q, EndpointLimit(req.limit),
                                      OrNull(req.source), ftsThrows) :
               ret' = [op |-> "GET /api/codes/search", status |-> 200,
                       threw |-> out.threw, query |-> req.q,
                       limit |-> EndpointLimit(req.limit),
                       source |-> OrNull(req.source),
                       fallback |-> out.fallback, rows |-> out.rows]
    /\ UNCHANGED <<provisions, provisions_fts, sqlite_sequence, ingestion_log, tx,
                   segVars, ingVars>>

w_ois == <<"o", "i", "s">>
w_11pm == <<"1", "1", "p", "m">>
w_fence_ == <<"f", "e", "n", "c", "e">>
w_bylaw == <<"b", "y", "l", "a", "w">>
w_punct == <<"(", "\"", "*">>

Queries ==
    { <<w_noise>>, <<w_ois>>, <<w_park>>, <<w_11pm>>, <<w_11pm_>>, <<w_at>>,
      <<w_fence_>>, <<w_noise, w_parking>>, <<w_punct>> }

\* the requests sent to the endpoint; the query that matches every row of the
\* large store is sent with the limit parameters 25 and -1
EndpointRequests ==
    [q : {<<>>, <<w_noise>>, <<w_fence_>>},
     source : {NULL, Str(<<w_park>>)},
     limit : {NULL, Str(<<"1">>), Str(<<"2", "5">>), Str(<<"-", "1">>)}]
    \cup [q : {<<w_bylaw>>}, source : {NULL},
          limit : {Str(<<"2", "5">>), Str(<<"-", "1">>)}]

Limits == {-1, 1, DefaultLimit}
SourceFilters == {NULL, Str(<<w_park>>), Str(<<w_at>>)}

\* the stores searched: up to MaxId inserts, then possibly a summary written
\* and a provision deleted
ValidItems == { item \in Items : ~ViolatesNotNull(item) }

Edited(st, u, d) ==
    LET updated == IF u \in DOMAIN st.provisions
                   THEN UpdateRow(st, u, Str(<<w_noise>>)) ELSE st
    IN  IF d \in DOMAIN updated.provisions THEN DeleteRow(updated, d) ELSE updated

\* a store of one row more than the endpoint's largest limit
BylawItem ==
    [source |-> Str(<<w_bylaw>>), chapter |-> NULL, chapter_title |-> NULL,
     section |-> NULL, section_title |-> NULL, content |-> Str(<<w_bylaw>>),
     summary |-> NULL, pdf_url |-> NULL, keywords |-> NULL]

LargeStore ==
    BulkFold([provisions |-> EmptyFn, fts |-> EmptyFn, seq |-> 0],
             [i \in 1..(EndpointMaxLimit + 1) |-> BylawItem], EndpointMaxLimit + 1)

SearchStores ==
    {LargeStore} \cup
    { Edited(BulkFold([provisions |-> EmptyFn, fts |-> EmptyFn, seq |-> 0],
                      items, Len(items)), u, d) :
        items \in UNION { [1..n -> ValidItems] : n \in 0..MaxId },
        u \in 0..MaxId, d \in 0..MaxId }

InitSearch ==
    /\ \E st \in SearchStores :
          /\ provisions = st.provisions
          /\ provisions_fts = st.fts
          /\ sqlite_sequence = st.seq
    /\ ingestion_log = <<>>
    /\ tx = NoTx
    /\ ret = NoCall
    /\ segIn = NoText
    /\ segOut = <<>>
    /\ NotStarted

\* one search of the store drawn
NextSearch ==
    \/ \E query \in Queries, limit \in Limits, source \in SourceFilters,
          ftsThrows \in BOOLEAN :
           ret.op = "none" /\ SearchProvisions(query, limit, source, ftsThrows)
    \/ \E req \in EndpointRequests, ftsThrows \in BOOLEAN :
           ret.op = "none" /\ CodesSearch(req, ftsThrows)

SpecSearch == InitSearch /\ [][NextSearch]_vars

(***************************************************************************)
(* The term expansion of the trace handler: extractSearchTerms turns a     *)
(* story into search terms.  A story is its sequence of characters.        *)
(***************************************************************************)
\* `mappings`: for each entry the alternatives of its pattern and its search
\* terms, in the order of the table
mappings ==
    <<
       \* 'late|commute|bus|streetcar|subway|ttc|train|transit|shuttle': 'transit TTC service streetcar bus'
       [patterns |->
          <<<<"l","a","t","e">>, <<"c","o","m","m","u","t","e">>,
            <<"b","u","s">>, <<"s","t","r","e","e","t","c","a","r">>,
            <<"s","u","b","w","a","y">>, <<"t","t","c">>,
            <<"t","r","a","i","n">>, <<"t","r","a","n","s","i","t">>,
            <<"s","h","u","t","t","l","e">>>>,
        terms |->
          <<<<"t","r","a","n","s","i","t">>, <<"T","T","C">>,
            <<"s","e","r","v","i","c","e">>,
            <<"s","t","r","e","e","t","c","a","r">>, <<"b","u","s">>>>],
       \* 'traffic|congestion|gridlock|slow|stuck': 'traffic right-of-way road'
       [patterns |->
          <<<<"t","r","a","f","f","i","c">>,
            <<"c","o","n","g","e","s","t","i","o","n">>,
            <<"g","r","i","d","l","o","c","k">>, <<"s","l","o","w">>,
            <<"s","t","u","c","k">>>>,
        terms |->
          <<<<"t","r","a","f","f","i","c">>,
            <<"r","i","g","h","t","-","o","f","-","w","a","y">>,
            <<"r","o","a","d">>>>],
       \* 'rent|apartment|condo|housing|afford|expensive|lease': 'housing residential dwelling density'
       [patterns |->
          <<<<"r","e","n","t">>, <<"a","p","a","r","t","m","e","n","t">>,
            <<"c","o","n","d","o">>, <<"h","o","u","s","i","n","g">>,
            <<"a","f","f","o","r","d">>,
            <<"e","x","p","e","n","s","i","v","e">>, <<"l","e","a","s","e">>>>,
        terms |->
          <<<<"h","o","u","s","i","n","g">>,
            <<"r","e","s","i","d","e","n","t","i","a","l">>,
            <<"d","w","e","l","l","i","n","g">>,
            <<"d","e","n","s","i","t","y">>>>],
       \* 'basement|suite|secondary|laneway|garden suite': 'laneway secondary suite dwelling additional'
       [patterns |->
          <<<<"b","a","s","e","m","e","n","t">>, <<"s","u","i","t","e">>,
            <<"s","e","c","o","n","d","a","r","y">>,
            <<"l","a","n","e","w","a","y">>,
            <<"g","a","r","d","e","n"," ","s","u","i","t","e">>>>,
        terms |->
          <<<<"l","a","n","e","w","a","y">>,
            <<"s","e","c","o","n","d","a","r","y">>, <<"s","u","i","t","e">>,
            <<"d","w","e","l","l","i","n","g">>,
            <<"a","d","d","i","t","i","o","n","a","l">>>>],
       \* 'build|construct|renovate|addition|permit': 'building permit construction site plan'
       [patterns |->
          <<<<"b","u","i","l","d">>, <<"c","o","n","s","t","r","u","c","t">>,
            <<"r","e","n","o","v","a","t","e">>,
            <<"a","d","d","i","t","i","o","n">>, <<"p","e","r","m","i","t">>>>,
        terms |->
          <<<<"b","u","i","l","d","i","n","g">>, <<"p","e","r","m","i","t">>,
            <<"c","o","n","s","t","r","u","c","t","i","o","n">>,
            <<"s","i","t","e">>, <<"p","l","a","n">>>>],
       \* 'parking|park|car|drive|garage': 'parking minimum vehicle spaces'
       [patterns |->
          <<<<"p","a","r","k","i","n","g">>, <<"p","a","r","k">>,
            <<"c","a","r">>, <<"d","r","i","v","e">>,
            <<"g","a","r","a","g","e">>>>,
        terms |->
          <<<<"p","a","r","k","i","n","g">>, <<"m","i","n","i","m","u","m">>,
            <<"v","e","h","i","c","l","e">>, <<"s","p","a","c","e","s">>>>],
       \* 'noise|loud|music|construction noise|barking': 'noise sound prohibited'
       [patterns |->
          <<<<"n","o","i","s","e">>, <<"l","o","u","d">>,
            <<"m","u","s","i","c">>,
            <<"c","o","n","s","t","r","u","c","t","i","o","n"," ","n","o","i","s","e">>,
            <<"b","a","r","k","i","n","g">>>>,
        terms |->
          <<<<"n","o","i","s","e">>, <<"s","o","u","n","d">>,
            <<"p","r","o","h","i","b","i","t","e","d">>>>],
       \* 'fence|yard|garden|tree|property line': 'fence property boundary setback'
       [patterns |->
          <<<<"f","e","n","c","e">>, <<"y","a","r","d">>,
            <<"g","a","r","d","e","n">>, <<"t","r","e","e">>,
            <<"p","r","o","p","e","r","t","y"," ","l","i","n","e">>>>,
        terms |->
          <<<<"f","e","n","c","e">>, <<"p","r","o","p","e","r","t","y">>,
            <<"b","o","u","n","d","a","r","y">>,
            <<"s","e","t","b","a","c","k">>>>],
       \* 'snow|plow|ice|winter|shovel|salt': 'snow ice removal clearing windrow'
       [patterns |->
          <<<<"s","n","o","w">>, <<"p","l","o","w">>, <<"i","c","e">>,
            <<"w","i","n","t","e","r">>, <<"s","h","o","v","e","l">>,
            <<"s","a","l","t">>>>,
        terms |->
          <<<<"s","n","o","w">>, <<"i","c","e">>,
            <<"r","e","m","o","v","a","l">>,
            <<"c","l","e","a","r","i","n","g">>,
            <<"w","i","n","d","r","o","w">>>>],
       \* 'garbage|waste|recycling|bin|collection': 'waste collection recycling'
       [patterns |->
          <<<<"g","a","r","b","a","g","e">>, <<"w","a","s","t","e">>,
            <<"r","e","c","y","c","l","i","n","g">>, <<"b","i","n">>,
            <<"c","o","l","l","e","c","t","i","o","n">>>>,
        terms |->
          <<<<"w","a","s","t","e">>,
            <<"c","o","l","l","e","c","t","i","o","n">>,
            <<"r","e","c","y","c","l","i","n","g">>>>],
       \* 'restaurant|bar|cafe|patio|food|shop|store|business': 'commercial retail restaurant licence patio'
       [patterns |->
          <<<<"r","e","s","t","a","u","r","a","n","t">>, <<"b","a","r">>,
            <<"c","a","f","e">>, <<"p","a","t","i","o">>, <<"f","o","o","d">>,
            <<"s","h","o","p">>, <<"s","t","o","r","e">>,
            <<"b","u","s","i","n","e","s","s">>>>,
        terms |->
          <<<<"c","o","m","m","e","r","c","i","a","l">>,
            <<"r","e","t","a","i","l">>,
            <<"r","e","s","t","a","u","r","a","n","t">>,
            <<"l","i","c","e","n","c","e">>, <<"p","a","t","i","o">>>>],
       \* 'sign|billboard|awning': 'sign advertising display'
       [patterns |->
          <<<<"s","i","g","n">>, <<"b","i","l","l","b","o","a","r","d">>,
            <<"a","w","n","i","n","g">>>>,
        terms |->
          <<<<"s","i","g","n">>,
            <<"a","d","v","e","r","t","i","s","i","n","g">>,
            <<"d","i","s","p","l","a","y">>>>],
       \* 'sidewalk|road|pothole|crosswalk|intersection': 'street sidewalk road maintenance'
       [patterns |->
          <<<<"s","i","d","e","w","a","l","k">>, <<"r","o","a","d">>,
            <<"p","o","t","h","o","l","e">>,
            <<"c","r","o","s","s","w","a","l","k">>,
            <<"i","n","t","e","r","s","e","c","t","i","o","n">>>>,
        terms |->
          <<<<"s","t","r","e","e","t">>, <<"s","i","d","e","w","a","l","k">>,
            <<"r","o","a","d">>,
            <<"m","a","i","n","t","e","n","a","n","c","e">>>>],
       \* 'bike|bicycle|cycling|cycle track': 'bicycle cycling lane'
       [patterns |->
          <<<<"b","i","k","e">>, <<"b","i","c","y","c","l","e">>,
            <<"c","y","c","l","i","n","g">>,
            <<"c","y","c","l","e"," ","t","r","a","c","k">>>>,
        terms |->
          <<<<"b","i","c","y","c","l","e">>, <<"c","y","c","l","i","n","g">>,
            <<"l","a","n","e">>>>],
       \* 'pedestrian|walk|crossing': 'pedestrian crosswalk sidewalk'
       [patterns |->
          <<<<"p","e","d","e","s","t","r","i","a","n">>, <<"w","a","l","k">>,
            <<"c","r","o","s","s","i","n","g">>>>,
        terms |->
          <<<<"p","e","d","e","s","t","r","i","a","n">>,
            <<"c","r","o","s","s","w","a","l","k">>,
            <<"s","i","d","e","w","a","l","k">>>>],
       \* 'development|tower|highrise|condo|new building': 'development height density setback angular'
       [patterns |->
          <<<<"d","e","v","e","l","o","p","m","e","n","t">>,
            <<"t","o","w","e","r">>, <<"h","i","g","h","r","i","s","e">>,
            <<"c","o","n","d","o">>,
            <<"n","e","w"," ","b","u","i","l","d","i","n","g">>>>,
        terms |->
          <<<<"d","e","v","e","l","o","p","m","e","n","t">>,
            <<"h","e","i","g","h","t">>, <<"d","e","n","s","i","t","y">>,
            <<"s","e","t","b","a","c","k">>, <<"a","n","g","u","l","a","r">>>>],
       \* 'heritage|old building|historic': 'heritage conservation designation'
       [patterns |->
          <<<<"h","e","r","i","t","a","g","e">>,
            <<"o","l","d"," ","b","u","i","l","d","i","n","g">>,
            <<"h","i","s","t","o","r","i","c">>>>,
        terms |->
          <<<<"h","e","r","i","t","a","g","e">>,
            <<"c","o","n","s","e","r","v","a","t","i","o","n">>,
            <<"d","e","s","i","g","n","a","t","i","o","n">>>>],
       \* 'safety|dangerous|hazard': 'safety property standard'
       [patterns |->
          <<<<"s","a","f","e","t","y">>,
            <<"d","a","n","g","e","r","o","u","s">>,
            <<"h","a","z","a","r","d">>>>,
        terms |->
          <<<<"s","a","f","e","t","y">>, <<"p","r","o","p","e","r","t","y">>,
            <<"s","t","a","n","d","a","r","d">>>>],
       \* 'fire|smoke|alarm': 'fire safety building code'
       [patterns |->
          <<<<"f","i","r","e">>, <<"s","m","o","k","e">>,
            <<"a","l","a","r","m">>>>,
        terms |->
          <<<<"f","i","r","e">>, <<"s","a","f","e","t","y">>,
            <<"b","u","i","l","d","i","n","g">>, <<"c","o","d","e">>>>],
       \* 'dog|pet|animal|leash': 'animal dog pet'
       [patterns |->
          <<<<"d","o","g">>, <<"p","e","t">>, <<"a","n","i","m","a","l">>,
            <<"l","e","a","s","h">>>>,
        terms |->
          <<<<"a","n","i","m","a","l">>, <<"d","o","g">>, <<"p","e","t">>>>],
       \* 'licence|license|permit|application|wait': 'licence permit application'
       [patterns |->
          <<<<"l","i","c","e","n","c","e">>, <<"l","i","c","e","n","s","e">>,
            <<"p","e","r","m","i","t">>,
            <<"a","p","p","l","i","c","a","t","i","o","n">>,
            <<"w","a","i","t">>>>,
        terms |->
          <<<<"l","i","c","e","n","c","e">>, <<"p","e","r","m","i","t">>,
            <<"a","p","p","l","i","c","a","t","i","o","n">>>>]
    >>

\* the elements of the place-name pattern that are not one character:
\* \.? and " ?" (an optional character) and \s* (any run of white space)
OptDot == "\\.?"
OptSpace == " ?"
AnySpace == "\\s*"

\* the alternatives of the place-name pattern, in order
locationAlternatives ==
    <<<<"q","u","e","e","n">>, <<"k","i","n","g">>, <<"b","l","o","o","r">>,
      <<"d","u","n","d","a","s">>, <<"y","o","n","g","e">>,
      <<"s","p","a","d","i","n","a">>, <<"b","a","t","h","u","r","s","t">>,
      <<"o","s","s","i","n","g","t","o","n">>,
      <<"c","o","l","l","e","g","e">>,
      <<"s","t",OptDot,AnySpace,"c","l","a","i","r">>,
      <<"d","a","n","f","o","r","t","h">>,
      <<"e","g","l","i","n","t","o","n">>,
      <<"l","a","w","r","e","n","c","e">>,
      <<"s","h","e","p","p","a","r","d">>, <<"f","i","n","c","h">>,
      <<"s","c","a","r","b","o","r","o","u","g","h">>,
      <<"e","t","o","b","i","c","o","k","e">>,
      <<"n","o","r","t","h"," ","y","o","r","k">>,
      <<"e","a","s","t"," ","y","o","r","k">>,
      <<"l","e","s","l","i","e","v","i","l","l","e">>,
      <<"p","a","r","k","d","a","l","e">>,
      <<"j","u","n","c","t","i","o","n">>,
      <<"k","e","n","s","i","n","g","t","o","n">>, <<"a","n","n","e","x">>,
      <<"b","e","a","c","h","e","s">>, <<"l","i","b","e","r","t","y">>,
      <<"d","i","s","t","i","l","l","e","r","y">>,
      <<"c","o","r","k","t","o","w","n">>, <<"r","e","g","e","n","t">>,
      <<"m","o","s","s"," ","p","a","r","k">>,
      <<"c","a","b","b","a","g","e",OptSpace,"t","o","w","n">>,
      <<"r","i","v","e","r",OptSpace,"d","a","l","e">>>>

\* the class \s of a JavaScript regular expression, as far as stories go
Whitespace == {" ", "\t", "\n"}

\* regex.test(s) for the pattern a|b|c: some alternative occurs in s; with a
\* variant that wants s to be the alternative
TestWholeInput(patterns, s) == \E j \in 1..Len(patterns) : s = patterns[j]
Test(patterns, s) == \E j \in 1..Len(patterns) : Contains(s, patterns[j])

\* terms.add(t) on a Set in insertion order; with a variant that keeps
\* duplicates
SetAddAlways(terms, t) == Append(terms, t)
SetAdd(terms, t) ==
    IF \E i \in 1..Len(terms) : terms[i] = t THEN terms ELSE Append(terms, t)

\* new.forEach(t => terms.add(t)), from new[k] on
RECURSIVE AddAll(_, _, _)
AddAll(terms, new, k) ==
    IF k > Len(new) THEN terms ELSE AddAll(SetAdd(terms, new[k]), new, k + 1)

\* the loop over Object.entries(mappings), from entry k on
RECURSIVE AddMapped(_, _, _)
AddMapped(terms, s, k) ==
    IF k > Len(mappings) THEN terms
    ELSE AddMapped(IF Test(mappings[k].patterns, s)
                   THEN AddAll(terms, mappings[k].terms, 1) ELSE terms,
                   s, k + 1)

\* the positions where a match of alt from element k on, begun at s[i], can end
RECURSIVE MatchEnds(_, _, _, _)
MatchEnds(alt, k, s, i) ==
    IF k > Len(alt) THEN {i}
    ELSE CASE alt[k] \in {OptDot, OptSpace} ->
                 MatchEnds(alt, k + 1, s, i) \cup
                 (IF i <= Len(s) /\ s[i] = (IF alt[k] = OptDot THEN "." ELSE " ")
                  THEN MatchEnds(alt, k + 1, s, i + 1) ELSE {})
           [] alt[k] = AnySpace ->
                 UNION { MatchEnds(alt, k + 1, s, j) :
                           j \in { j \in i..(Len(s) + 1) :
                                     \A m \in i..(j - 1) : s[m] \in Whitespace } }
           [] OTHER ->
                 IF i <= Len(s) /\ s[i] = alt[k]
                 THEN MatchEnds(alt, k + 1, s, i + 1) ELSE {}

\* \b holds before s[i]: exactly one of s[i-1], s[i] is a word character
WordBoundary(s, i) ==
    (i > 1 /\ s[i - 1] \in WordChars) # (i <= Len(s) /\ s[i] \in WordChars)

\* the ends of the matches of \b(alternatives)\b that begin at s[i]
LocationEnds(s, i) ==
    IF ~WordBoundary(s, i) THEN {}
    ELSE { j \in UNION { MatchEnds(locationAlternatives[a], 1, s, i) :
                           a \in 1..Len(locationAlternatives) } :
             WordBoundary(s, j) }

\* s.match(/\b(...)\b/gi): the matched texts from left to right.  No
\* alternative begins with the last word of another, so matches do not overlap
\* and every position where one begins is found.
Locations(s) ==
    LET starts == SortedSeq({ i \in 1..Len(s) : LocationEnds(s, i) # {} })
    IN  [n \in 1..Len(starts) |->
           SubSeq(s, starts[n], (CHOOSE j \in LocationEnds(s, starts[n]) : TRUE) - 1)]

\* [...terms].join(' ')
RECURSIVE Join(_, _)
Join(terms, n) ==
    IF n = 0 THEN <<>>
    ELSE IF n = 1 THEN terms[1]
    ELSE Join(terms, n - 1) \o <<" ">> \o terms[n]

\* extractSearchTerms(story): the Set in insertion order and the string returned
extractSearchTerms(story) ==
    LET s     == LowerCase(story)
        terms == AddAll(AddMapped(<<>>, s, 1), [n \in 1..Len(Locations(s)) |-> LowerCase(Locations(s)[n])], 1)
    IN  [terms |-> terms, text |-> Join(terms, Len(terms))]

\* story.trim() on a sequence of characters
TrimChars(story) ==
    LET inked == { i \in 1..Len(story) : story[i] \notin Whitespace }
    IN  IF inked = {} THEN <<>>
        ELSE SubSeq(story, CHOOSE i \in inked : \A j \in inked : i <= j,
                           CHOOSE i \in inked : \A j \in inked : j <= i)

\* the words of a string, split on white space
SplitOnSpace(text) ==
    Runs(text, { text[i] : i \in 1..Len(text) } \ Whitespace)

MinStoryLength == 20
TraceLimit == 8

\* extractSearchTerms called on its own
ExtractSearchTerms(story) ==
    /\ ret' = [op |-> "extractSearchTerms", threw |-> FALSE, story |-> story,
               terms |-> extractSearchTerms(story).terms,
               text |-> extractSearchTerms(story).text]
    /\ UNCHANGED <<provisions, provisions_fts, sqlite_sequence, ingestion_log, tx,
                   segVars, ingVars>>

\* POST /api/trace with a story; hasKey: ANTHROPIC_API_KEY is set; outcome: what
\* becomes of the request after the search (502: the model's API refuses,
\* 500: a step throws, 200: the trace is stored and returned)
Trace(story, hasKey, ftsThrows, outcome) ==
    /\ IF Len(TrimChars(story)) < MinStoryLength
       THEN ret' = [op |-> "POST /api/trace", threw |-> FALSE, status |-> 400,
                    story |-> story, searchTerms |-> <<>>, searched |-> FALSE,
                    rows |-> {}]
       ELSE IF ~hasKey
       THEN ret' = [op |-> "POST /api/trace", threw |-> FALSE, status |-> 500,
                    story |-> story, searchTerms |-> <<>>, searched |-> FALSE,
                    rows |-> {}]
       ELSE LET searchTerms == extractSearchTerms(story).text
            IN  IF searchTerms # <<>>
                THEN \E out \in SearchOutcomes(Committed, SplitOnSpace(searchTerms),
                                               TraceLimit, NULL, ftsThrows) :
                        ret' = [op |-> "POST /api/trace", threw |-> FALSE,
                                status |-> outcome, story |-> story,
                                searchTerms |-> searchTerms, searched |-> TRUE,
                                rows |-> out.rows]
                ELSE ret' = [op |-> "POST /api/trace", threw |-> FALSE,
                             status |-> outcome, story |-> story,
                             searchTerms |-> searchTerms, searched |-> FALSE,
                             rows |-> {}]
    /\ UNCHANGED <<provisions, provisions_fts, sqlite_sequence, ingestion_log, tx,
                   segVars, ingVars>>

\* the stories: every alternative of every entry, place names written in
\* several ways, stories that match nothing, and stories that match twice
ExtraStories ==
    {<<>>, <<"c","o","n","d","o"," ","o","n"," ","q","u","e","e","n">>,
     <<"h","e","l","l","o">>, <<"Q","U","E","E","N">>, <<"B","u","s">>,
     <<"k","i","n","g","s","t","o","n">>,
     <<"s","t","."," ","c","l","a","i","r">>,
     <<"s","t"," "," ","c","l","a","i","r">>, <<"s","t","c","l","a","i","r">>,
     <<"c","a","b","b","a","g","e","t","o","w","n">>,
     <<"c","a","b","b","a","g","e"," ","t","o","w","n">>,
     <<"n","o","r","t","h"," ","y","o","r","k">>,
     <<"m","o","s","s"," ","p","a","r","k">>,
     <<"r","i","v","e","r","d","a","l","e">>,
     <<"q","u","e","e","n"," ","a","n","d"," ","k","i","n","g">>,
     <<"q","u","e","e","n"," ","o","r"," ","q","u","e","e","n">>,
     <<"r","e","n","t"," ","b","a","s","e","m","e","n","t">>,
     <<"n","o","i","s","e"," ","o","n"," ","q","u","e","e","n"," ","s","t","r","e","e","t">>,
     <<"m","y"," ","d","o","g"," ","b","a","r","k","s">>}

StoryCores ==
    ExtraStories \cup
    UNION { { mappings[k].patterns[j] : j \in 1..Len(mappings[k].patterns) } :
              k \in 1..Len(mappings) }

Padding == <<" ","z","z","z","z","z","z","z","z","z","z","z","z","z","z","z","z","z","z","z","z">>

\* each core alone, glued to a letter before it, and padded to a long story
Stories ==
    { pre \o core \o post :
        pre \in {<<>>, <<"x">>}, core \in StoryCores, post \in {<<>>, Padding} }

\* the stories posted to the trace handler: their search terms are words
\* whose stems PorterStem knows
TraceStories ==
    { <<>>, w_noise, Padding, <<" ">> \o Padding,
      w_noise \o Padding, w_parking \o <<" ","o","n"," ","q","u","e","e","n">> \o Padding,
      w_fence_ \o Padding, <<"h","e","l","l","o">> \o Padding }

TraceStores ==
    { BulkFold([provisions |-> EmptyFn, fts |-> EmptyFn, seq |-> 0], items, Len(items)) :
        items \in UNION { [1..n -> ValidItems] : n \in 0..MaxBatch } }

InitTrace ==
    /\ \E st \in TraceStores :
          /\ provisions = st.provisions
          /\ provisions_fts = st.fts
          /\ sqlite_sequence = st.seq
    /\ ingestion_log = <<>>
    /\ tx = NoTx
    /\ ret = NoCall
    /\ segIn = NoText
    /\ segOut = <<>>
    /\ NotStarted

NextTrace ==
    \/ \E story \in Stories : ret.op = "none" /\ ExtractSearchTerms(story)
    \/ \E story \in TraceStories, hasKey \in BOOLEAN, ftsThrows \in BOOLEAN,
          outcome \in {200, 500, 502} :
           ret.op = "none" /\ Trace(story, hasKey, ftsThrows, outcome)

SpecTrace == InitTrace /\ [][NextTrace]_vars

(***************************************************************************)
(* Claims about the term expansion                                         *)
(***************************************************************************)
\* C16: for every entry of the trigger table and every trigger phrase of the
\* entry, the expansion of an input containing the phrase is a non-empty
\* string containing at least one of the entry's expansion terms.
C16_ExpansionCoverage ==
    ret.op = "extractSearchTerms" =>
        \A k \in 1..Len(mappings) : \A j \in 1..Len(mappings[k].patterns) :
            Contains(ret.story, mappings[k].patterns[j]) =>
                /\ ret.text # <<>>
                /\ \E n \in 1..Len(mappings[k].terms) :
                       Contains(ret.text, mappings[k].terms[n])

\* a story holding a trigger phrase inside a longer text was expanded
C16_Witness ==
    /\ ret.op = "extractSearchTerms"
    /\ \E k \in 1..Len(mappings) : \E j \in 1..Len(mappings[k].patterns) :
          /\ Contains(ret.story, mappings[k].patterns[j])
          /\ Len(ret.story) > Len(mappings[k].patterns[j])
    /\ ret.text # <<>>

\* entry k matches the story: one of its trigger phrases occurs in the story,
\* letter case ignored
EntryMatches(k, story) ==
    \E j \in 1..Len(mappings[k].patterns) :
        Contains(LowerCase(story), mappings[k].patterns[j])

\* the expansion terms of the matching entries and the recognized place names
ExpectedTerms(story) ==
    UNION { { mappings[k].terms[n] : n \in 1..Len(mappings[k].terms) } :
              k \in { k \in 1..Len(mappings) : EntryMatches(k, story) } }
    \cup { Locations(LowerCase(story))[n] : n \in 1..Len(Locations(LowerCase(story))) }

\* C17: the expansion is the space-joined union, without duplicates, of the
\* expansion terms of every matching entry and of every recognized place name;
\* it is the empty string exactly when nothing matches, and the trace handler
\* then performs no search.
C17_ExpansionIsUnion ==
    /\ ret.op = "extractSearchTerms" =>
          /\ { ret.terms[n] : n \in 1..Len(ret.terms) } = ExpectedTerms(ret.story)
          /\ \A m, n \in 1..Len(ret.terms) : ret.terms[m] = ret.terms[n] => m = n
          /\ ret.text = Join(ret.terms, Len(ret.terms))
          /\ ret.text = <<>> <=> ExpectedTerms(ret.story) = {}
    /\ ret.op = "POST /api/trace" =>
          /\ ExpectedTerms(ret.story) = {} => ~ret.searched
          /\ ret.searched => ret.searchTerms # <<>>

\* two matching entries that share an expansion term, and a place name
C17_Witness ==
    /\ ret.op = "extractSearchTerms"
    /\ \E k1, k2 \in 1..Len(mappings) :
          /\ k1 < k2
          /\ EntryMatches(k1, ret.story) /\ EntryMatches(k2, ret.story)
          /\ \E m \in 1..Len(mappings[k1].terms), n \in 1..Len(mappings[k2].terms) :
                 mappings[k1].terms[m] = mappings[k2].terms[n]
    /\ Locations(LowerCase(ret.story)) # <<>>

(***************************************************************************)
(* Claims about the ingestion script                                       *)
(***************************************************************************)
\* the ids of the stored provisions of (source, chapter)
RowsOf(table, source, chapter) ==
    { id \in DOMAIN table : /\ table[id].source = Str(source)
                            /\ table[id].chapter = Str(chapter) }

\* C3: in every reachable state, also after a failure or a kill at any step,
\* an ingestion record for (source, chapter) implies that the store holds
\* that chapter's provisions and that their number is the record's
\* provisions_count.
C3_RecordMatchesStore ==
    \A j \in 1..Len(ingestion_log) :
        LET r == ingestion_log[j]
        IN  /\ r.provisions_count > 0
            /\ Cardinality(RowsOf(provisions, r.source, r.chapter)) = r.provisions_count

\* (source, chapter) had an ingestion record in this log
Recorded(log, source, chapter) ==
    \E j \in 1..Len(log) : log[j].source = source /\ log[j].chapter = chapter

\* no two stored provisions are the same provision
NoDuplicates ==
    \A a, b \in DOMAIN provisions :
        (/\ provisions[a].source = provisions[b].source
         /\ provisions[a].chapter = provisions[b].chapter
         /\ provisions[a].section = provisions[b].section
         /\ provisions[a].content = provisions[b].content) => a = b

\* C4 as stated: a second run, after a first run that reached its end with no
\* database error, leaves the number of stored provisions unchanged and stores
\* no provision twice.
C4_SecondRunIsNoOp ==
    (run = 2 /\ pc.at = "done" /\ hist.prev = "done" /\ faults = 0) =>
        /\ Cardinality(DOMAIN provisions) = Cardinality(DOMAIN hist.provisions)
        /\ NoDuplicates

\* C4: a unit whose (source, chapter) had an ingestion record when the run
\* started is skipped: the run never fetches, segments, inserts or records
\* it, and the stored provisions of that chapter stay the ones the store
\* held when the run started.
C4_RecordedUnitsSkipped ==
    /\ pc.at \in {"fetch", "segment", "insert", "record"} =>
           ~Recorded(hist.log, pc.src, UnitChapter(pc.src, Unit))
    /\ \A j \in 1..Len(hist.log) :
           LET r == hist.log[j]
               now == RowsOf(provisions, r.source, r.chapter)
           IN  /\ now = RowsOf(hist.provisions, r.source, r.chapter)
               /\ \A id \in now : provisions[id] = hist.provisions[id]

\* the second run has passed a unit that the first run recorded
C4_Witness ==
    /\ run = 2
    /\ pc.at = "check"
    /\ pc.src = "zoning_bylaw"
    /\ pc.i = 2
    /\ Recorded(hist.log, "zoning_bylaw", UnitChapter("zoning_bylaw", zoningPdfUrls[1]))
    /\ RowsOf(provisions, "zoning_bylaw", UnitChapter("zoning_bylaw", zoningPdfUrls[1])) # {}

\* C5: no acquisition or parse failure aborts the run: the script never ends
\* in main().catch with the remaining sources unprocessed and no statistics
\* reported.
C5_NoFailureAborts == pc.at # "fatal"

\* the sum of the counts of a set of [source, count] rows
RECURSIVE SumCounts(_)
SumCounts(rows) ==
    IF rows = {} THEN 0
    ELSE LET r == CHOOSE x \in rows : TRUE IN r.count + SumCounts(rows \ {r})

\* the step of main that calls getCodeStats
StatsStep == pc.at = "main" /\ pc.k = 3 /\ pc'.at = "done"

\* C15: the statistics are read-only and exact: total_provisions is the number
\* of provisions in the store, the by_source counts sum to total_provisions,
\* and the call leaves the provisions table, the index and the ingestion log
\* unchanged.
C15_StatsReadOnlyExact ==
    [][StatsStep =>
         /\ ret'.op = "getCodeStats"
         /\ ret'.stats.total_provisions = Cardinality(DOMAIN provisions)
         /\ SumCounts(ret'.stats.by_source) = ret'.stats.total_provisions
         /\ UNCHANGED <<provisions, provisions_fts, ingestion_log>>]_vars

\* statistics were taken of a store with provisions of two sources and a
\* non-empty ingestion log
C15_Witness ==
    /\ pc.at = "done"
    /\ ret.op = "getCodeStats"
    /\ Cardinality(ret.stats.by_source) >= 2
    /\ ret.stats.total_provisions > Cardinality(ret.stats.by_source)
    /\ ingestion_log # <<>>

\* process.argv.includes('--all-chapters')
HasAllChapters(args) == \E j \in 1..Len(args) : args[j] = AllChapters

\* every municipal provision in the store is of a priority chapter
OnlyPriorityChapters ==
    \A id \in DOMAIN provisions :
        provisions[id].source = Str("municipal_code") =>
            \E n \in priorityChapters : provisions[id].chapter = Str(ChapterRef(n))

\* C20: run as `node ingest-codes.js --all-chapters`, the script ingests the
\* municipal code and takes every chapter of the catalog, not only the
\* priority subset; run without the flag, every municipal chapter it ingests
\* has a number in the priority list.
C20_AllChaptersFlag ==
    [][/\ (pc.at = "main" /\ pc.k = 0 /\ argv = <<AllChapters>>) => pc'.at = "index"
       /\ (pc.at = "index" /\ pc'.at = "check" /\ HasAllChapters(argv)) =>
             toIngest' = IndexChapters
       /\ ~HasAllChapters(argv) => OnlyPriorityChapters]_vars

\* the parts of C20 that hold: whenever the municipal code is ingested, the
\* flag selects the whole catalog, and without it only priority chapters are
\* stored
FlagSelectsCatalog ==
    [][/\ (pc.at = "index" /\ pc'.at = "check" /\ HasAllChapters(argv)) =>
             toIngest' = IndexChapters
       /\ ~HasAllChapters(argv) => OnlyPriorityChapters]_vars

\* a run with the flag alone ends with an empty store
FlagAloneIngestsNothing ==
    (argv = <<AllChapters>> /\ pc.at = "done") => provisions = EmptyFn

\* the unit at hand is about to be downloaded from the server
AboutToDownload ==
    pc.at = "fetch" /\ CacheKey(Unit.url) \notin DOMAIN cache.pdf

\* C21: in every ingestion routine the fixed delay elapses between the
\* download of one unit and the download of the next, whether the first
\* succeeded, produced zero provisions, or failed: no unit is downloaded while
\* the routine's last download is not yet followed by a sleep.
C21_PolitenessDelay ==
    AboutToDownload => hist.net # pc.src

\* the part of C21 that holds: a download that succeeded is followed by the
\* sleep in the municipal code and zoning routines, also when the unit yields
\* no provisions
SleepAfterBody ==
    [][(pc.at \in {"insert", "record"} /\ pc'.at = "check"
          /\ pc.src # "official_plan" /\ faults' = faults) => FALSE]_vars

\* the step after a segmentation that yielded no provisions
ZeroProvisionStep ==
    pc.at = "insert" /\ Len(work.provisions) = 0 /\ pc'.at # "killed"

\* C22: when the segmentation of a unit yields zero provisions, the routine
\* performs no insert, writes no ingestion record for the unit, logs a
\* warning, and continues with the next unit; no record ever counts zero
\* provisions, so the unit is processed again on the next run.
C22_ZeroProvisionUnits ==
    [][/\ ZeroProvisionStep =>
             /\ UNCHANGED <<provisions, provisions_fts, ingestion_log>>
             /\ pc' \in {NextUnit, [pc EXCEPT !.at = "sleep"]}
             /\ ret'.op = "console.log"
             /\ ret'.unit = <<pc.src, UnitChapter(pc.src, Unit)>>
       /\ \A j \in 1..Len(ingestion_log) : ingestion_log[j].provisions_count > 0]_vars

\* C22 without the warning, which holds in the three routines
ZeroProvisionUnitsSkipped ==
    [][/\ ZeroProvisionStep =>
             /\ UNCHANGED <<provisions, provisions_fts, ingestion_log>>
             /\ pc' \in {NextUnit, [pc EXCEPT !.at = "sleep"]}
             /\ pc.src = "municipal_code" => ret'.op = "console.log"
       /\ \A j \in 1..Len(ingestion_log) : ingestion_log[j].provisions_count > 0]_vars

\* C25: the document cache is keyed by the document: fetchPdf(u) returns the
\* content that was downloaded for u, never the content cached for another
\* URL, and the cache entry of a catalog URL holds that URL's content.
C25_CacheKeyedByDocument ==
    /\ pc.at = "segment" => work.pdf = Unit.url
    /\ \A k \in 1..Len(toIngest) :
          CacheKey(toIngest[k].url) \in DOMAIN cache.pdf =>
              cache.pdf[CacheKey(toIngest[k].url)] = toIngest[k].url

\* a URL whose cache file exists is not downloaded again: the step of fetchPdf
\* leaves the cache as it is and sends no request
CachedNotDownloadedAgain ==
    [][(pc.at = "fetch" /\ pc'.at # "killed"
          /\ CacheKey(Unit.url) \in DOMAIN cache.pdf) =>
             /\ cache' = cache
             /\ hist' = hist
             /\ work'.pdf = cache.pdf[CacheKey(Unit.url)]]_vars

\* C26: after a run that was killed at any point and a second run that reached
\* its end, every chapter's provisions are stored at most once, and the
\* second run processed only units that had no ingestion record.
C26_CrashSafeRerun ==
    /\ (run = 2 /\ hist.prev = "killed" /\ faults = 0 /\ pc.at = "done") => NoDuplicates
    /\ (run = 2 /\ hist.prev = "killed"
           /\ pc.at \in {"fetch", "segment", "insert", "record"}) =>
              ~Recorded(hist.log, pc.src, UnitChapter(pc.src, Unit))

\* the second run, after a kill, processes a unit that has no ingestion record
\* although the store holds provisions of its chapter
RerunOfStoredChapter ==
    /\ run = 2 /\ hist.prev = "killed" /\ faults = 0
    /\ pc.at = "insert"
    /\ ~Recorded(ingestion_log, pc.src, UnitChapter(pc.src, Unit))
    /\ RowsOf(provisions, pc.src, UnitChapter(pc.src, Unit)) # {}

(***************************************************************************)
(* Claims about search                                                     *)
(***************************************************************************)
\* a search of one word q with no source filter and a limit no smaller than
\* the number of stored provisions (so no smaller than the number of matches)
SearchedWord ==
    /\ ret.op = "searchProvisions"
    /\ Len(ret.query) = 1
    /\ OrNull(ret.source) = NULL
    /\ ret.limit < 0 \/ ret.limit >= Cardinality(DOMAIN provisions)

IsAlnum(q) == \A i \in 1..Len(q) : q[i] \in AlnumChars

\* q occurs in the content as written
SubstringOfContent(q, row) ==
    \E j \in 1..Len(row.content[1]) : Contains(row.content[1][j], q)

\* q is one of the content's words: a maximal run of letters and digits,
\* compared without regard to case
WordOfContent(q, row) ==
    \E j \in 1..Len(TextRuns(row.content[1], AlnumChars)) :
        LowerCase(TextRuns(row.content[1], AlnumChars)[j]) = LowerCase(q)

\* C10 as stated: every stored provision whose content has the alphanumeric
\* string q, longer than 2 characters, as a literal substring is returned by
\* search(q) when the limit is at least the number of matches.
C10_SubstringRecall ==
    SearchedWord =>
        \A id \in DOMAIN provisions :
            (/\ IsAlnum(ret.query[1])
             /\ Len(ret.query[1]) > 2
             /\ SubstringOfContent(ret.query[1], provisions[id])) => id \in ret.rows

\* C10: every stored provision whose content has the string q of letters and
\* digits, longer than 2 characters, as a whole word is returned by search(q)
\* when the limit is at least the number of matches.
C10_WordRecall ==
    SearchedWord =>
        \A id \in DOMAIN provisions :
            (/\ IsAlnum(ret.query[1])
             /\ Len(ret.query[1]) > 2
             /\ WordOfContent(ret.query[1], provisions[id])) => id \in ret.rows

\* the index answered a search for 11pm with the provision whose content
\* ends in "11pm."
C10_Witness ==
    /\ SearchedWord
    /\ ~ret.fallback
    /\ ret.query = <<w_11pm>>
    /\ \E id \in ret.rows : WordOfContent(w_11pm, provisions[id])

\* C11: when search is called with a source filter, every returned provision
\* has that source, on the ranked path and on the fallback path, whatever the
\* number of terms.
C11_SourceFilter ==
    (ret.op = "searchProvisions" /\ OrNull(ret.source) # NULL) =>
        \A id \in ret.rows : provisions[id].source = ret.source

\* C12: search returns at most `limit` provisions for every integer limit a
\* caller passes, on both paths, and the endpoint never returns more than 20
\* results whatever the limit parameter is.
C12_ResultBound ==
    /\ ret.op = "searchProvisions" => Cardinality(ret.rows) <= Max2(ret.limit, 0)
    /\ ret.op = "GET /api/codes/search" => Cardinality(ret.rows) <= EndpointMaxLimit

\* the endpoint's part of C12 alone
EndpointBound ==
    ret.op = "GET /api/codes/search" => Cardinality(ret.rows) <= EndpointMaxLimit

\* term occurs as a substring in one of the indexed fields of the row
InIndexedField(row, term) == \E name \in FtsColumnNames : Like(row[name], term)

\* C13: on the fallback path search takes the term list of the ranked path,
\* matches each term as a substring over the indexed fields (chapter title,
\* section title, content, summary, keywords) and returns only provisions that
\* match every term.
C13_FallbackMatchesEveryTerm ==
    (ret.op = "searchProvisions" /\ ret.fallback) =>
        \A id \in ret.rows : \A j \in 1..Len(CleanTerms(ret.query)) :
            InIndexedField(provisions[id], CleanTerms(ret.query)[j])

\* C13, as the code has it: on the fallback path search splits the query as
\* written on white space, keeps the terms longer than two characters, and
\* returns only provisions holding at least one of them as a substring
\* (letter case ignored) of the content, the chapter title or the section title.
C13_FallbackMatchesSomeTerm ==
    (ret.op = "searchProvisions" /\ ret.fallback) =>
        \A id \in ret.rows : \E j \in 1..Len(ret.query) :
            /\ Len(ret.query[j]) > 2
            /\ \/ Like(provisions[id].content, ret.query[j])
               \/ Like(provisions[id].chapter_title, ret.query[j])
               \/ Like(provisions[id].section_title, ret.query[j])

\* the fallback returned a provision for a query of two terms
C13_Witness ==
    /\ ret.op = "searchProvisions" /\ ret.fallback
    /\ Len(CleanTerms(ret.query)) = 2
    /\ ret.rows # {}

\* the query holds no run of word characters longer than two: punctuation
\* only, or short tokens only
NoUsableTerm(query) ==
    \A j \in 1..Len(TextRuns(query, WordChars)) :
        Len(TextRuns(query, WordChars)[j]) <= 2

InSync(st) ==
    /\ DOMAIN st.fts = DOMAIN st.provisions
    /\ \A id \in DOMAIN st.provisions : st.fts[id] = FtsColumns(st.provisions[id])

\* C1: after any sequence of inserts, updates and deletes, committed or rolled
\* back, the ids in the index are exactly the ids in table provisions, and each
\* index entry carries the current column values of its provision.
C1_SyncInvariant == InSync(Store) /\ InSync(Committed)

\* an update and a delete have acted and rows remain
C1_Witness ==
    /\ ret.op = "delete"
    /\ \E id \in DOMAIN provisions : provisions[id].summary = Str(<<w_noise>>)
    /\ sqlite_sequence > Cardinality(DOMAIN provisions)

BatchFails(items) == \E i \in 1..Len(items) : ViolatesNotNull(BulkParams(items[i]))

\* C2: a bulkInsert in which a record fails throws and leaves table and index
\* as they were before the call; one in which no record fails stores every
\* record of the batch, in order, and returns the batch size.
C2_BulkAllOrNothing ==
    (ret.op = "bulkInsert" /\ ret.done) =>
        /\ ret.threw <=> BatchFails(ret.items)
        /\ ret.threw =>
              /\ provisions = ret.before.provisions
              /\ provisions_fts = ret.before.fts
        /\ ~ret.threw =>
              LET first == NextRowid(ret.before)
                  n     == Len(ret.items)
              IN  /\ ret.count = n
                  /\ DOMAIN provisions =
                        (DOMAIN ret.before.provisions) \cup (first..(first + n - 1))
                  /\ \A id \in DOMAIN ret.before.provisions :
                        provisions[id] = ret.before.provisions[id]
                  /\ \A i \in 1..n :
                        provisions[first + i - 1] =
                            [id |-> first + i - 1] @@ BulkParams(ret.items[i])

\* a batch whose second record fails, after its first was inserted, has thrown
C2_Witness ==
    /\ ret.op = "bulkInsert" /\ ret.done /\ ret.threw
    /\ Len(ret.items) = 2
    /\ ~ViolatesNotNull(BulkParams(ret.items[1]))
    /\ DOMAIN ret.before.provisions # {}

\* the rows the bulk insert in progress has written so far
BatchInProgress == (DOMAIN provisions) \ (DOMAIN tx.snapshot.provisions)

\* C18: a search that runs while a chapter's bulk insert is in progress sees
\* none of the batch, and one that runs after it sees all of it; a search
\* never sees a provision without its index entry or an index entry without its
\* provision.
C18_SearchSeesNoneOrAll ==
    ret.op = "searchProvisions" =>
        /\ tx.open => ret.rows \cap BatchInProgress = {}
        /\ ~tx.open =>
              ret.rows = IF ret.fallback
                         THEN FallbackRows(Store, FallbackTerms(ret.query), NULL)
                         ELSE FtsRows(Store, CleanTerms(ret.query), NULL)
        /\ DOMAIN Committed.provisions = DOMAIN Committed.fts
        /\ \A id \in DOMAIN Committed.provisions :
              Committed.fts[id] = FtsColumns(Committed.provisions[id])

\* a search ran while a batch was half written, and a row of the batch
\* matches the query
C18_Witness ==
    /\ ret.op = "searchProvisions"
    /\ tx.open
    /\ tx.next <= Len(tx.items)
    /\ \E id \in BatchInProgress :
          FtsMatch(provisions_fts[id], CleanTerms(ret.query))

\* C19: provision ids are assigned once and never reused: over any sequence
\* of inserts and deletes every insert yields an id different from every id a
\* record ever had, and an insert never overwrites the record of an existing
\* id.  The committed sequence value bounds every id a record ever had: it
\* never decreases, no record's id exceeds it, and every new record's id does.
C19_IdsNeverReused ==
    [][/\ Committed'.seq >= Committed.seq
       /\ \A id \in DOMAIN Committed.provisions : id <= Committed.seq
       /\ \A id \in (DOMAIN Committed'.provisions) \ (DOMAIN Committed.provisions) :
             id > Committed.seq
       /\ \A id \in (DOMAIN provisions') \ (DOMAIN provisions) :
             /\ id > Committed.seq
             /\ \A other \in DOMAIN provisions : id > other
       /\ \A id \in (DOMAIN provisions') \cap (DOMAIN provisions) :
             ret'.op # "update" => provisions'[id] = provisions[id]]_vars

\* an insert after a delete: the new record has a new id and the id of the
\* deleted record stays unused
C19_Witness ==
    /\ ret.op = "insertProvision" /\ ~ret.threw
    /\ ret.id \in DOMAIN provisions
    /\ \E id \in 1..(ret.id - 1) : id \notin DOMAIN provisions

\* not so for rows that never were records: a rollback restores the sequence
\* value with the rest, and the ids of the rows it undid are given out again
\* (this formula is violated)
IdsOfRolledBackRowsNotReused ==
    [][sqlite_sequence' >= sqlite_sequence]_vars

(***************************************************************************)
(* Claims about the segmenter                                              *)
(***************************************************************************)
Segmented == ret.op = "extractAndChunk"
SegText == DocText(segIn.units)
Readable == segIn.ok /\ TextLen(SegText) >= MinTextLen

\* C6: every provision extractAndChunk returns, for any text, has a content of
\* at least 50 and at most 3000 characters.
C6_ContentLength ==
    \A i \in 1..Len(segOut) :
        MinContentLen <= ContentLen(segOut[i]) /\ ContentLen(segOut[i]) <= MaxContentLen

\* a text with a section longer than 3000 characters and a short one was segmented
C6_Witness ==
    /\ Segmented
    /\ \E i \in 1..Len(segOut) : ContentLen(segOut[i]) = MaxContentLen
    /\ \E i \in 1..Len(segOut) : ContentLen(segOut[i]) < 60

noiseChapter == <<U("sec", 38), U("sec", 44)>>
ref591_2_1 == <<"Chapter 591", "-", <<"5", "9", "1", "-", "2", ".", "1">>>>
ref591_2_2 == <<"Chapter 591", "-", <<"5", "9", "1", "-", "2", ".", "2">>>>

\* C7 as claimed: the two-line chapter 591 (lines of 48 and 54 characters)
\* yields exactly 2 provisions, 'Chapter 591-591-2.1' and 'Chapter 591-591-2.2'.
C7_TwoProvisions ==
    (Segmented /\ segIn.ok /\ segIn.units = noiseChapter) =>
        /\ Len(segOut) = 2
        /\ segOut[1].section = Str(ref591_2_1)
        /\ segOut[2].section = Str(ref591_2_2)

\* C7 amended: the two-line chapter 591 is split into its two lines, and only
\* the second, of 54 characters, is returned: exactly 1 provision, with
\* reference 'Chapter 591-591-2.2'.
C7_OneProvision ==
    (Segmented /\ segIn.ok /\ segIn.units = noiseChapter) =>
        /\ TextLen(SegText) = 103
        /\ Len(Sections(SegText)) = 2
        /\ TrimLen(Sections(SegText)[1]) = 48
        /\ Len(segOut) = 1
        /\ segOut[1].section = Str(ref591_2_2)
        /\ ContentLen(segOut[1]) = 54

C7_Witness == Segmented /\ segIn.ok /\ segIn.units = noiseChapter /\ Len(segOut) = 1

\* the numbers k of valid segments, 1 < k < 200, that some pattern yields
ValidCounts(t) ==
    {Len(ValidSplits(t, sectionPatterns[j])) : j \in 1..Len(sectionPatterns)}
        \cap (2..(MaxSplits - 1))

\* C8 as claimed: when a pattern yields k valid segments, 1 < k < 200, the
\* number of provisions returned is k.
C8_CountEqualsK ==
    (Segmented /\ Readable) => \A k \in ValidCounts(SegText) : Len(segOut) = k

\* C8 amended: when some pattern yields k valid segments, 1 < k < 200, the
\* segments chosen are those of the first pattern with the largest such count
\* (so at least k, and never the whole document or fixed-size chunks), and the
\* provisions returned are those segments whose trimmed content, cut to 3000
\* characters, is longer than 50.
C8_BestPatternThenFilter ==
    (Segmented /\ Readable /\ ValidCounts(SegText) # {}) =>
        LET t    == SegText
            best == SetMax(ValidCounts(t))
            j    == CHOOSE x \in 1..Len(sectionPatterns) :
                        /\ Len(ValidSplits(t, sectionPatterns[x])) = best
                        /\ \A y \in 1..(x - 1) :
                              Len(ValidSplits(t, sectionPatterns[y])) # best
            secs == ValidSplits(t, sectionPatterns[j])
            kept == {i \in 1..best : Min2(TrimLen(secs[i]), MaxContentLen) > MinContentLen}
        IN  /\ ~UsesChunks(t)
            /\ Sections(t) = secs
            /\ Len(segOut) = Cardinality(kept)
            /\ \A i \in 1..Len(segOut) :
                  \E n \in kept : segOut[i].content = Str(Slice(Trim(secs[n]), 0, MaxContentLen))

\* two patterns yield different counts below 200 and a segment was dropped
C8_Witness ==
    /\ Segmented /\ Readable
    /\ Cardinality(ValidCounts(SegText)) = 2
    /\ 0 < Len(segOut) /\ Len(segOut) < SetMax(ValidCounts(SegText))

IsPart(p) == Len(p.section[1]) = 4
PartNo(p) == p.section[1][3]

\* C9 as claimed: the n of a reference '{chapter} (Part n)' is the 1-based
\* position of the provision in the sequence extractAndChunk returns.
C9_PartIsOutputPosition ==
    \A i \in 1..Len(segOut) : IsPart(segOut[i]) => PartNo(segOut[i]) = i

\* C9 amended: the n of a reference '{chapter} (Part n)' is the 1-based
\* position of the provision's segment among the segments of the chapter,
\* counted before the segments of 50 characters or fewer are discarded; the
\* references of one chapter are pairwise distinct.
C9_PartIsSegmentPosition ==
    (Segmented /\ Readable) =>
        LET secs == Sections(SegText)
        IN  /\ \A i \in 1..Len(segOut) : IsPart(segOut[i]) =>
                  /\ PartNo(segOut[i]) \in 1..Len(secs)
                  /\ segOut[i].content =
                        Str(Slice(Trim(secs[PartNo(segOut[i])]), 0, MaxContentLen))
                  /\ SectionMatch(secs[PartNo(segOut[i])]) = NULL
            /\ \A i, j \in 1..Len(segOut) :
                  (i < j /\ IsPart(segOut[i]) /\ IsPart(segOut[j])) =>
                      PartNo(segOut[i]) < PartNo(segOut[j])

\* two provisions with synthesized references were returned, after a segment
\* before them was discarded
C9_Witness ==
    /\ Segmented
    /\ \E i, j \in 1..Len(segOut) :
          i < j /\ IsPart(segOut[i]) /\ IsPart(segOut[j]) /\ PartNo(segOut[i]) > i

\* a pattern of the tag matches the text, letters compared without case
TagMatches(kp, text) == \E w \in kp.alts : Contains(LowerCase(Flat(text)), w)

Keywords(p) == p.keywords[1]
HasTag(p, tag) == \E n \in 1..Len(Keywords(p)) : Keywords(p)[n] = tag

\* the position of a tag in the table of extractKeywords
TagIndex(tag) == CHOOSE j \in 1..Len(keywordPatterns) : keywordPatterns[j].tag = tag

\* the tags of p are tags of the table, once each, in the order of the table
InVocabularyOrder(p) ==
    /\ \A n \in 1..Len(Keywords(p)) :
          \E j \in 1..Len(keywordPatterns) : keywordPatterns[j].tag = Keywords(p)[n]
    /\ \A m, n \in 1..Len(Keywords(p)) :
          m < n => TagIndex(Keywords(p)[m]) < TagIndex(Keywords(p)[n])

\* C23 as claimed: a tag is in the keywords of a provision if and only if one
\* of its patterns matches the provision's content as stored (trimmed and cut
\* to 3000 characters); the tags appear once each in the order of the table.
C23_KeywordsMatchStoredContent ==
    \A i \in 1..Len(segOut) :
        /\ \A j \in 1..Len(keywordPatterns) :
              HasTag(segOut[i], keywordPatterns[j].tag)
                  <=> TagMatches(keywordPatterns[j], segOut[i].content[1])
        /\ InVocabularyOrder(segOut[i])

\* C23 amended: a tag is in the keywords of a provision if and only if one of
\* its patterns matches the segment the provision was made from, before the
\* segment is trimmed and cut to 3000 characters; so every tag whose pattern
\* matches the stored content is present, and for a segment of at most 3000
\* characters after trimming the tags are exactly those matching the stored
\* content. The tags appear once each in the order of the table.
C23_KeywordsMatchSegment ==
    (Segmented /\ Readable) =>
        LET secs == Sections(SegText)
        IN  \A i \in 1..Len(segOut) :
                /\ \E n \in 1..Len(secs) :
                      /\ segOut[i].content = Str(Slice(Trim(secs[n]), 0, MaxContentLen))
                      /\ \A j \in 1..Len(keywordPatterns) :
                            HasTag(segOut[i], keywordPatterns[j].tag)
                                <=> TagMatches(keywordPatterns[j], secs[n])
                      /\ TrimLen(secs[n]) <= MaxContentLen =>
                            \A j \in 1..Len(keywordPatterns) :
                                HasTag(segOut[i], keywordPatterns[j].tag)
                                    <=> TagMatches(keywordPatterns[j], segOut[i].content[1])
                /\ \A j \in 1..Len(keywordPatterns) :
                      TagMatches(keywordPatterns[j], segOut[i].content[1])
                          => HasTag(segOut[i], keywordPatterns[j].tag)
                /\ InVocabularyOrder(segOut[i])

\* a provision cut to 3000 characters carries the tags 'noise' and 'fence' of
\* words beyond the cut, in the order of the table, and another provision of
\* the same text has no tag
C23_Witness ==
    /\ Segmented
    /\ \E i, k \in 1..Len(segOut) :
          /\ ContentLen(segOut[i]) = MaxContentLen
          /\ Keywords(segOut[i]) = <<"noise", "fence">>
          /\ \A j \in 1..Len(keywordPatterns) :
                ~TagMatches(keywordPatterns[j], segOut[i].content[1])
          /\ Keywords(segOut[k]) = <<>>

ChunkStep == ChunkSize - ChunkOverlap
ChunkStart(k) == (k - 1) * ChunkStep
ChunkEnd(t, k) == Min2(ChunkStart(k) + ChunkSize, TextLen(t))

\* the provisions returned are those of the fixed-size chunks of the text,
\* and there is more than one chunk
ChunksUsed ==
    LET cs   == chunkBySize(SegText, ChunkSize, ChunkOverlap)
        kept == SelectSeq(cs, LAMBDA c : Min2(TrimLen(c), MaxContentLen) > MinContentLen)
    IN  /\ Len(cs) > 1
        /\ Len(segOut) = Len(kept)
        /\ \A i \in 1..Len(segOut) :
              segOut[i].content = Str(Slice(Trim(kept[i]), 0, MaxContentLen))

\* chunkBySize(t, 1500, 200) ends after at most one chunk per 1300 characters;
\* chunk k is the text from 1300 (k - 1) to 1500 characters further or to the
\* end of the text, two consecutive chunks share exactly 200 characters, and
\* the last chunk ends where the text ends
ChunksCoverWithOverlap(t) ==
    LET cs == chunkBySize(t, ChunkSize, ChunkOverlap)
        n  == Len(cs)
    IN  /\ n >= 1
        /\ n <= TextLen(t) \div ChunkStep + 1
        /\ \A k \in 1..n :
              /\ ChunkStart(k) < TextLen(t)
              /\ cs[k] = Slice(t, ChunkStart(k), ChunkEnd(t, k))
              /\ TextLen(cs[k]) = ChunkEnd(t, k) - ChunkStart(k)
              /\ TextLen(cs[k]) <= ChunkSize
        /\ \A k \in 1..(n - 1) :
              /\ ChunkEnd(t, k) - ChunkStart(k + 1) = ChunkOverlap
              /\ ChunkEnd(t, k + 1) > ChunkEnd(t, k)
        /\ ChunkEnd(t, n) = TextLen(t)

\* C24 as claimed: the fixed-size chunks are used exactly when no pattern
\* produced more than one segment and the text is longer than 2000
\* characters; chunkBySize(text, 1500, 200) terminates, each chunk has at most
\* 1500 characters, consecutive chunks share exactly 200 characters and every
\* character lies in a chunk.
C24_ChunksWhenNoPatternSplits ==
    /\ (Segmented /\ Readable) =>
          (ChunksUsed <=>
              /\ \A j \in 1..Len(sectionPatterns) :
                    Len(ValidSplits(SegText, sectionPatterns[j])) <= 1
              /\ TextLen(SegText) > ChunkThreshold)
    /\ ChunksCoverWithOverlap(SegText)

\* C24 amended: the fixed-size chunks are used exactly when no pattern yielded
\* a number k of segments of more than 30 characters with 1 < k < 200 (a
\* pattern that yields 200 segments or more is passed over like one that
\* yields a single segment) and the text is longer than 2000 characters;
\* chunkBySize(text, 1500, 200) terminates, each chunk has at most 1500
\* characters, consecutive chunks share exactly 200 characters and every
\* character lies in a chunk.
C24_ChunksWhenNoPatternAccepted ==
    /\ (Segmented /\ Readable) =>
          (ChunksUsed <=>
              (ValidCounts(SegText) = {} /\ TextLen(SegText) > ChunkThreshold))
    /\ ChunksCoverWithOverlap(SegText)

\* a text in which a pattern yields 200 segments was cut into more than two
\* chunks, the last one shorter than 1500 characters
C24_Witness ==
    /\ Segmented /\ Readable /\ ChunksUsed
    /\ \E j \in 1..Len(sectionPatterns) :
          Len(ValidSplits(SegText, sectionPatterns[j])) >= MaxSplits
    /\ Len(segOut) > 2
    /\ ContentLen(segOut[Len(segOut)]) < ChunkSize

====
